---- MODULE Spec2Model ----
(***************************************************************************)
(* protocol-query: document segmentation, retrieval store (SQLite schema   *)
(* with foreign keys and FTS5 triggers), lexical / vector search and the   *)
(* reciprocal-rank-fusion ranker.                                          *)
(*                                                                         *)
(* Conventions of the model                                                *)
(*   - SQL NULL is 0 for integer columns and "NULL" for text columns.      *)
(*   - A text is a sequence of lines; a line is the record                 *)
(*       [mk, n, len, words, t, kw]                                        *)
(*     mk    the list marker the criterion regex recognises at the start   *)
(*           of the line ("num" N. N), "pnum" (N), "let" a. a), "plet"     *)
(*           (a), "bullet", "dash") or "none";                             *)
(*     n     the marker's digits as an integer, or the marker letter's     *)
(*           character code, 0 when the marker carries neither;            *)
(*     len   number of characters of the stripped line body (>= 1);        *)
(*     words number of whitespace separated words of the body;             *)
(*     t     an identifier of the body's content;                          *)
(*     kw    the keyword classes of _categorize_criterion found in it.     *)
(*     In a narrative text every line is one sentence ending in terminal   *)
(*     punctuation, the line break being the whitespace re.split needs.    *)
(*   - Scores are exact rationals <<numerator, denominator>>.              *)
(***************************************************************************)
EXTENDS Integers, Sequences, FiniteSets, TLC

(***************************************************************************)
(* Generic helpers                                                         *)
(***************************************************************************)
Range(s) == {s[i] : i \in 1..Len(s)}

Min(a, b) == IF a <= b THEN a ELSE b

Max(a, b) == IF a >= b THEN a ELSE b

RECURSIVE SumSeq(_)
SumSeq(s) == IF s = <<>> THEN 0 ELSE Head(s) + SumSeq(Tail(s))

\* s[:n] of Python for n >= 0
Take(s, n) == SubSeq(s, 1, Min(n, Len(s)))

\* the elements of the integer set S in ascending order
RECURSIVE Ascending(_)
Ascending(S) ==
  IF S = {} THEN <<>>
  ELSE LET m == CHOOSE x \in S : \A y \in S : x <= y
       IN <<m>> \o Ascending(S \ {m})

\* all sequences without repetition over S of length at most n
RECURSIVE InjSeqs(_, _)
InjSeqs(S, n) ==
  IF n = 0 \/ S = {} THEN {<<>>}
  ELSE {<<>>} \cup UNION {{<<x>> \o r : r \in InjSeqs(S \ {x}, n - 1)} : x \in S}

\* all sequences without repetition over S of length exactly n
InjSeqsOfLen(S, n) == {s \in InjSeqs(S, n) : Len(s) = n}

(***************************************************************************)
(* Bounds of the model                                                     *)
(***************************************************************************)
\* largest AUTOINCREMENT key the model lets the chunks table hand out
MaxChunkId == 5

\* largest AUTOINCREMENT key the model lets the documents table hand out
MaxDocId == 2

\* largest result limit a search request is issued with
MaxLimit == 2

\* number of chunk keys the fusion inputs are drawn from
MaxFusionIds == 4

\* largest number of criteria in a pooled list given to the matcher
MaxPool == 3

\* largest number of lines of a criteria section given to the segmenter
MaxLines == 3

\* largest number of sentences of a narrative section given to the segmenter
MaxSentences == 4

\* the longest vector handed to a similarity or to the embedding codec
MaxDim == 2

\* the longest query text handed to the lexical query builder
MaxQueryLen == 3

(***************************************************************************)
(* Program constants                                                       *)
(***************************************************************************)
RRF_K == 60

chunk_size == 512

chunk_overlap == 50

NULL == "NULL"

(***************************************************************************)
(* State                                                                   *)
(***************************************************************************)
VARIABLES
  db,     \* the committed contents of the database file
  pc,     \* pc[p]: where client process p stands in its command
  job,    \* job[p]: the command of p and its local variables
  txn,    \* txn[p]: the contents p sees inside its open write transaction
  last,   \* the latest search request, its result and how often it was run
  fus,    \* fusion under test: the two source lists, the limit, the output
  cmp,    \* criteria comparison under test: its input and its result
  seg,    \* segmentation under test: the section and the chunks made of it
  fn      \* a function under test: its name, its arguments and its result

vars == <<db, pc, job, txn, last, fus, cmp, seg, fn>>

(***************************************************************************)
(* Segmenter (parsers/chunker.py)                                          *)
(***************************************************************************)
Line(mk, n, len, words, t, kw) ==
  [mk |-> mk, n |-> n, len |-> len, words |-> words, t |-> t, kw |-> kw]

\* the text of a chunk: the content identifiers of its lines, in order
BodyText(lines) == [i \in 1..Len(lines) |-> lines[i].t]

\* len(criterion_text.strip()) of a body made of several lines: the lines
\* and the line breaks between them
BodyLen(lines) ==
  SumSeq([i \in 1..Len(lines) |-> lines[i].len]) + (Len(lines) - 1)

CategoryRules ==
  <<"demographic", "clinical", "laboratory", "prior_treatment", "consent",
    "reproductive">>

_categorize_criterion(lines) ==
  LET kws == UNION {lines[i].kw : i \in 1..Len(lines)}
      hit == {k \in 1..Len(CategoryRules) : CategoryRules[k] \in kws}
  IN IF hit = {} THEN NULL
     ELSE CategoryRules[CHOOSE k \in hit : \A j \in hit : k <= j]

Chunk(text, ctype, stype, sidx, crit_type, crit_num, cat) ==
  [chunk_text |-> text, chunk_type |-> ctype, section_type |-> stype,
   section_index |-> sidx, criterion_type |-> crit_type,
   criterion_number |-> crit_num, category |-> cat]

\* criterion_pattern.findall(text): one match per marked line, its body
\* running over the following unmarked lines up to the next marked line
RECURSIVE RegexMatches(_, _)
RegexMatches(text, acc) ==
  IF text = <<>> THEN acc
  ELSE LET l == Head(text)
       IN IF l.mk # "none"
          THEN RegexMatches(Tail(text),
                 Append(acc, [mk |-> l.mk, n |-> l.n, body |-> <<l>>]))
          ELSE IF acc = <<>>
          THEN RegexMatches(Tail(text), acc)
          ELSE RegexMatches(Tail(text),
                 [acc EXCEPT ![Len(acc)].body = Append(@, l)])

OrdA == 97

CriterionNum(m, i) ==
  IF m.mk \in {"num", "pnum"} THEN m.n
  ELSE IF m.mk \in {"let", "plet"} THEN m.n - OrdA + 1
  ELSE i + 1

CriterionTypeOf(section_type) ==
  IF section_type = "inclusion_criteria" THEN "inclusion" ELSE "exclusion"

RECURSIVE MarkerChunks(_, _, _, _)
MarkerChunks(matches, i, section_type, section_index) ==
  IF i >= Len(matches) THEN <<>>
  ELSE LET m == matches[i + 1]
           rest == MarkerChunks(matches, i + 1, section_type, section_index)
       IN IF BodyLen(m.body) > 10
          THEN <<Chunk(BodyText(m.body), "criterion", section_type,
                       section_index, CriterionTypeOf(section_type),
                       CriterionNum(m, i), _categorize_criterion(m.body))>>
               \o rest
          ELSE rest

RECURSIVE FallbackChunks(_, _, _, _)
FallbackChunks(lines, criterion_num, section_type, section_index) ==
  IF lines = <<>> THEN <<>>
  ELSE LET l == Head(lines)
       IN IF l.len > 20
          THEN <<Chunk(<<l.t>>, "criterion", section_type, section_index,
                       CriterionTypeOf(section_type), criterion_num + 1,
                       _categorize_criterion(<<l>>))>>
               \o FallbackChunks(Tail(lines), criterion_num + 1,
                                 section_type, section_index)
          ELSE FallbackChunks(Tail(lines), criterion_num,
                              section_type, section_index)

_chunk_criteria(text, section_type, section_index) ==
  LET matches == RegexMatches(text, <<>>)
  IN IF matches # <<>>
     THEN MarkerChunks(matches, 0, section_type, section_index)
     ELSE FallbackChunks(text, 0, section_type, section_index)

\* len(sentence.split()) * 1.3, in tenths of a token
Tokens10(s) == s.words * 13

\* the overlap loop with the chunk size as its budget
RECURSIVE OverlapSentencesBySize(_, _, _)
OverlapSentencesBySize(current_chunk, acc, overlap_tokens) ==
  IF current_chunk = <<>> THEN [sents |-> acc, tokens |-> overlap_tokens]
  ELSE LET s == current_chunk[Len(current_chunk)]
       IN IF overlap_tokens + Tokens10(s) <= chunk_size * 10
          THEN OverlapSentencesBySize(SubSeq(current_chunk, 1, Len(current_chunk) - 1),
                                      <<s>> \o acc, overlap_tokens + Tokens10(s))
          ELSE [sents |-> acc, tokens |-> overlap_tokens]

\* the overlap loop: walk the closed chunk backwards while the budget holds
RECURSIVE OverlapSentences(_, _, _)
OverlapSentences(current_chunk, acc, overlap_tokens) ==
  IF current_chunk = <<>> THEN [sents |-> acc, tokens |-> overlap_tokens]
  ELSE LET s == current_chunk[Len(current_chunk)]
       IN IF overlap_tokens + Tokens10(s) <= chunk_overlap * 10
          THEN OverlapSentences(SubSeq(current_chunk, 1, Len(current_chunk) - 1),
                                <<s>> \o acc, overlap_tokens + Tokens10(s))
          ELSE [sents |-> acc, tokens |-> overlap_tokens]

RECURSIVE PackSentences(_, _, _, _, _)
PackSentences(sentences, current_chunk, current_length, section_type, section_index) ==
  IF sentences = <<>>
  THEN IF current_chunk # <<>>
       THEN <<Chunk(BodyText(current_chunk), "text", section_type,
                    section_index, NULL, 0, NULL)>>
       ELSE <<>>
  ELSE LET s == Head(sentences)
       IN IF current_length + Tokens10(s) > chunk_size * 10 /\ current_chunk # <<>>
          THEN LET ov == OverlapSentences(current_chunk, <<>>, 0)
               IN <<Chunk(BodyText(current_chunk), "text", section_type,
                          section_index, NULL, 0, NULL)>>
                  \o PackSentences(Tail(sentences), Append(ov.sents, s),
                                   ov.tokens + Tokens10(s),
                                   section_type, section_index)
          ELSE PackSentences(Tail(sentences), Append(current_chunk, s),
                             current_length + Tokens10(s),
                             section_type, section_index)

_chunk_text(text, section_type, section_index) ==
  PackSentences(text, <<>>, 0, section_type, section_index)

_chunk_section(section) ==
  IF section.raw_text = <<>> THEN <<>>
  ELSE IF section.section_type \in {"inclusion_criteria", "exclusion_criteria"}
  THEN _chunk_criteria(section.raw_text, section.section_type, section.index)
  ELSE _chunk_text(section.raw_text, section.section_type, section.index)

RECURSIVE ChunkSections(_)
ChunkSections(sections) ==
  IF sections = <<>> THEN <<>>
  ELSE _chunk_section(Head(sections)) \o ChunkSections(Tail(sections))

\* section_index of a chunk of the no-sections fallback is None: -1
NoIndex == 0 - 1

chunk_document(doc_data) ==
  IF doc_data.sections # <<>>
  THEN ChunkSections(doc_data.sections)
  ELSE _chunk_text(doc_data.pages, "other", NoIndex)

(***************************************************************************)
(* The files on disk and what parse_document extracts from them            *)
(***************************************************************************)
\* command line spellings of the files; Path.resolve() maps a spelling to
\* the absolute path, str(file_path) keeps the spelling
PathArgs == {"/a", "a", "/b"}

resolve(path) == IF path = "a" THEN "/a" ELSE path

\* the --protocol-id option: absent, or an identifier
ProtoOpts == {NULL, "P2"}

Queries == {"q1", "q2"}

SectionTypes ==
  {"inclusion_criteria", "exclusion_criteria", "population", "objectives",
   "background", "study_design", "treatment", "assessments", "safety",
   "efficacy", "statistics", "ethics", "administration", "appendix", "other"}

\* /a : an inclusion section "1. <24 characters on age>\n2. <8 characters>"
\*      and a study design section of two short sentences
\* /b : no section detected; one page of three sentences of 300, 30 and 300
\*      words
FileA ==
  [protocol_id |-> "P1",
   sections |->
     <<[index |-> 0, section_type |-> "inclusion_criteria",
        raw_text |-> <<Line("num", 1, 24, 5, 1, {"demographic"}),
                       Line("num", 2, 8, 2, 2, {})>>],
       [index |-> 1, section_type |-> "study_design",
        raw_text |-> <<Line("none", 0, 60, 10, 3, {}),
                       Line("none", 0, 55, 10, 4, {})>>]>>,
   pages |-> <<>>]

\* /c : an inclusion section of two numbered items, the first with the text
\*      of the first item of /a, and an exclusion section of one item
FileC ==
  [protocol_id |-> "P3",
   sections |->
     <<[index |-> 0, section_type |-> "inclusion_criteria",
        raw_text |-> <<Line("num", 1, 24, 5, 1, {"demographic"}),
                       Line("num", 2, 30, 6, 8, {"clinical"})>>],
       [index |-> 1, section_type |-> "exclusion_criteria",
        raw_text |-> <<Line("num", 1, 26, 5, 9, {})>>]>>,
   pages |-> <<>>]

FileB ==
  [protocol_id |-> NULL,
   sections |-> <<>>,
   pages |-> <<Line("none", 0, 1800, 300, 5, {}),
               Line("none", 0, 180, 30, 6, {}),
               Line("none", 0, 1800, 300, 7, {})>>]

\* parse_document followed by the --protocol-id override of ingest_add
parse_document(path, protocol_id) ==
  LET f == IF resolve(path) = "/a" THEN FileA
           ELSE IF resolve(path) = "/c" THEN FileC ELSE FileB
  IN [filepath |-> path,
      protocol_id |-> IF protocol_id # NULL THEN protocol_id ELSE f.protocol_id,
      sections |-> f.sections,
      pages |-> f.pages]

(***************************************************************************)
(* Embedding collaborator (embeddings/local.py): a deterministic function  *)
(* of the text; the vector of a text is the sum of its lines' vectors      *)
(***************************************************************************)
TokVec ==
  <<<<2, 0>>, <<0, 1>>, <<1, 1>>, <<0, 2>>, <<1, 0>>, <<1, 2>>, <<0 - 1, 1>>,
    <<1, 3>>, <<3, 1>>>>

RECURSIVE VecSum(_)
VecSum(text) ==
  IF text = <<>> THEN <<0, 0>>
  ELSE LET r == VecSum(Tail(text))
           v == TokVec[Head(text)]
       IN <<v[1] + r[1], v[2] + r[2]>>

\* Config.embedding_model, and the values EMBEDDING_MODEL gives it
embedding_model == "all-MiniLM-L6-v2"

EmbeddingModels == {embedding_model, "all-mpnet-base-v2"}

\* Config.embedding_dimension, the dimension of the default model: 384 in
\* the configuration, 2 on the scale of the vectors of TokVec
embedding_dimension == 2

\* model.encode(text): a model yields vectors of its own dimension, the
\* default model of two components, the other model of three
embed(model_name, text) ==
  IF model_name = embedding_model THEN VecSum(text)
  ELSE Append(VecSum(text), Len(text))

QueryVec(query) == IF query = "q1" THEN <<1, 0>> ELSE <<1, 1>>

embed_query(query) == QueryVec(query)

\* an embedder that returns one vector fewer than it got texts
embed_batch_short(model_name, texts) ==
  [i \in 1..(Len(texts) - 1) |-> embed(model_name, texts[i])]

embed_batch(model_name, texts) ==
  [i \in 1..Len(texts) |-> embed(model_name, texts[i])]

\* struct.pack("f"): a value is rounded to single precision; an integer
\* below 2^24 in magnitude is kept, a larger one loses its low bit
F32Exact == 16777216

F32(x) ==
  IF x < F32Exact /\ x > 0 - F32Exact THEN x
  ELSE IF x % 2 = 0 THEN x
  ELSE IF ((x - 1) \div 2) % 2 = 0 THEN x - 1 ELSE x + 1

pack(embedding) == [i \in 1..Len(embedding) |-> F32(embedding[i])]

\* a decoder that reads the blob as 8-byte floats: dim = len(blob) // 8
unpack_as_double(blob) == [i \in 1..(Len(blob) \div 2) |-> blob[2 * i - 1]]

\* struct.unpack(f"{dim}f", blob) with dim = len(blob) // 4
unpack(blob) == [i \in 1..Len(blob) |-> blob[i]]

(***************************************************************************)
(* Retrieval store (core/database.py): the tables of SCHEMA_SQL, the FTS5   *)
(* content of FTS_SCHEMA_SQL and the AUTOINCREMENT counters                 *)
(***************************************************************************)
EmptyDb ==
  [documents |-> {}, sections |-> {}, chunks |-> {}, embeddings |-> {},
   eligibility_criteria |-> {}, chunks_fts |-> {},
   seq |-> [documents |-> 0, sections |-> 0, chunks |-> 0,
            eligibility_criteria |-> 0]]

\* the outcome of a statement: the new contents, or the exception raised
Ok(d) == [ok |-> TRUE, db |-> d, id |-> 0]

OkId(d, id) == [ok |-> TRUE, db |-> d, id |-> id]

Raise(d) == [ok |-> FALSE, db |-> d, id |-> 0]

\* the insert into a documents table whose filepath is not UNIQUE
InsertDocumentAnyPath(d, doc_data) ==
  LET id == d.seq.documents + 1
  IN OkId([d EXCEPT !.documents = @ \cup
                      {[id |-> id, filepath |-> doc_data.filepath,
                        protocol_id |-> doc_data.protocol_id]},
                    !.seq.documents = id], id)

\* INSERT INTO documents: filepath TEXT NOT NULL UNIQUE
InsertDocument(d, doc_data) ==
  IF \E r \in d.documents : r.filepath = doc_data.filepath
  THEN Raise(d)
  ELSE LET id == d.seq.documents + 1
       IN OkId([d EXCEPT !.documents = @ \cup
                           {[id |-> id, filepath |-> doc_data.filepath,
                             protocol_id |-> doc_data.protocol_id]},
                         !.seq.documents = id], id)

\* INSERT INTO sections: document_id REFERENCES documents(id)
InsertSection(d, doc_id, section) ==
  IF ~ \E r \in d.documents : r.id = doc_id
  THEN Raise(d)
  ELSE LET id == d.seq.sections + 1
       IN OkId([d EXCEPT !.sections = @ \cup
                           {[id |-> id, document_id |-> doc_id,
                             section_type |-> section.section_type]},
                         !.seq.sections = id], id)

\* INSERT INTO chunks, and the trigger chunks_ai it fires
InsertChunk(d, doc_id, section_id, chunk_index, chunk) ==
  IF \/ ~ \E r \in d.documents : r.id = doc_id
     \/ (section_id # 0 /\ ~ \E r \in d.sections : r.id = section_id)
  THEN Raise(d)
  ELSE LET id == d.seq.chunks + 1
       IN OkId([d EXCEPT !.chunks = @ \cup
                           {[id |-> id, document_id |-> doc_id,
                             section_id |-> section_id,
                             chunk_index |-> chunk_index,
                             chunk_text |-> chunk.chunk_text,
                             chunk_type |-> chunk.chunk_type]},
                         !.chunks_fts = @ \cup
                           {[rowid |-> id, chunk_text |-> chunk.chunk_text]},
                         !.seq.chunks = id], id)

\* INSERT INTO embeddings: chunk_id NOT NULL UNIQUE REFERENCES chunks(id)
InsertEmbedding(d, chunk_id, blob) ==
  IF \/ \E r \in d.embeddings : r.chunk_id = chunk_id
     \/ ~ \E r \in d.chunks : r.id = chunk_id
  THEN Raise(d)
  ELSE Ok([d EXCEPT !.embeddings = @ \cup
                      {[chunk_id |-> chunk_id, embedding |-> blob]}])

\* INSERT INTO eligibility_criteria
InsertCriterion(d, doc_id, chunk, chunk_id) ==
  IF \/ ~ \E r \in d.documents : r.id = doc_id
     \/ ~ \E r \in d.chunks : r.id = chunk_id
  THEN Raise(d)
  ELSE LET id == d.seq.eligibility_criteria + 1
       IN OkId([d EXCEPT !.eligibility_criteria = @ \cup
                           {[id |-> id, document_id |-> doc_id,
                             criterion_type |-> chunk.criterion_type,
                             criterion_number |-> chunk.criterion_number,
                             criterion_text |-> chunk.chunk_text,
                             category |-> chunk.category,
                             chunk_id |-> chunk_id]},
                         !.seq.eligibility_criteria = id], id)

\* the delete with foreign keys left off: only the documents row goes
CascadeDeleteOff(d, doc_id) ==
  [d EXCEPT !.documents = {r \in @ : r.id # doc_id}]

\* DELETE FROM documents WHERE id = ? under PRAGMA foreign_keys = ON:
\* sections, chunks and criteria go by ON DELETE CASCADE on document_id,
\* embeddings by ON DELETE CASCADE on chunk_id, chunks.section_id of a
\* surviving chunk is SET NULL, the trigger chunks_ad clears the index, and
\* the statement fails when a surviving criterion still references a
\* deleted chunk (eligibility_criteria.chunk_id has no ON DELETE action)
CascadeDelete(d, doc_id) ==
  LET sections == {r \in d.sections : r.document_id # doc_id}
      kept == {r \in d.chunks : r.document_id # doc_id}
      chunks == {IF r.section_id = 0 \/ (\E s \in sections : s.id = r.section_id)
                 THEN r ELSE [r EXCEPT !.section_id = 0] : r \in kept}
      ids == {r.id : r \in chunks}
  IN [d EXCEPT !.documents = {r \in @ : r.id # doc_id},
               !.sections = sections,
               !.chunks = chunks,
               !.embeddings = {r \in @ : r.chunk_id \in ids},
               !.eligibility_criteria = {r \in @ : r.document_id # doc_id},
               !.chunks_fts = {r \in @ : r.rowid \in ids}]

DeleteDocumentRow(d, doc_id) ==
  LET n == CascadeDelete(d, doc_id)
  IN IF \E r \in n.eligibility_criteria :
          ~ \E c \in n.chunks : c.id = r.chunk_id
     THEN Raise(d)
     ELSE Ok(n)

\* SELECT * FROM documents WHERE filepath = ?  (0: no row)
get_document_by_path(d, filepath) ==
  IF \E r \in d.documents : r.filepath = filepath
  THEN (CHOOSE r \in d.documents : r.filepath = filepath).id
  ELSE 0

get_document_by_id(d, doc_id) ==
  IF \E r \in d.documents : r.id = doc_id THEN doc_id ELSE 0

(***************************************************************************)
(* Rational scores                                                         *)
(***************************************************************************)
Rat(n, d) == <<n, d>>

RatAdd(a, b) == <<a[1] * b[2] + b[1] * a[2], a[2] * b[2]>>

RatEq(a, b) == a[1] * b[2] = b[1] * a[2]

RatLess(a, b) == a[1] * b[2] < b[1] * a[2]

\* abs() of a rational with a positive denominator
RatAbs(a) == <<IF a[1] < 0 THEN 0 - a[1] ELSE a[1], a[2]>>

\* sorted(xs, key = key, reverse = True), list.sort(reverse = True): a stable
\* sort, elements of equal key keep the order they had in xs
SortDesc(xs, less) ==
  LET n == Len(xs)
      \* less holds the pairs <<i, j>> with key(xs[i]) < key(xs[j])
      Same(i, j) == <<i, j>> \notin less /\ <<j, i>> \notin less
      \* the place of xs[i]: behind every element of greater key and behind
      \* the earlier elements of equal key
      pos(i) == 1 + Cardinality({j \in 1..n : <<i, j>> \in less})
                  + Cardinality({j \in 1..(i - 1) : Same(i, j)})
  IN [k \in 1..n |-> xs[CHOOSE i \in 1..n : pos(i) = k]]

(***************************************************************************)
(* Lexical Index (search/fts.py)                                           *)
(***************************************************************************)
\* the content identifiers whose text holds a term of the query, and the
\* weight the engine's bm25() gives each of them
QueryTerms(query) == IF query = "q1" THEN {1, 3, 5, 6} ELSE {1, 4, 7}

TokWeight == <<3, 1, 2, 2, 1, 2, 1>>

\* chunks_fts MATCH ?
FtsMatch(query, chunk_text) == Range(chunk_text) \cap QueryTerms(query) # {}

\* bm25(chunks_fts): negative, the better match the lower
bm25(query, chunk_text) ==
  Rat(0 - SumSeq([i \in 1..Len(chunk_text) |->
                   IF chunk_text[i] \in QueryTerms(query)
                   THEN TokWeight[chunk_text[i]] ELSE 0]), 1)

\* JOIN documents d ON d.id = c.document_id
DocOf(d, c) == CHOOSE r \in d.documents : r.id = c.document_id

\* a join that reads a chunk without a section as one of type other
SectionTypeOfUntyped(d, c) ==
  IF \E s \in d.sections : s.id = c.section_id
  THEN (CHOOSE s \in d.sections : s.id = c.section_id).section_type
  ELSE "other"

\* LEFT JOIN sections s ON s.id = c.section_id
SectionTypeOf(d, c) ==
  IF \E s \in d.sections : s.id = c.section_id
  THEN (CHOOSE s \in d.sections : s.id = c.section_id).section_type
  ELSE NULL

\* a filter that leaves the section condition out
PassFiltersProtocolOnly(d, c, protocol_ids, section_types) ==
  /\ \E r \in d.documents : r.id = c.document_id
  /\ protocol_ids # {} => DocOf(d, c).protocol_id \in protocol_ids \ {NULL}

\* AND d.protocol_id IN (...) AND s.section_type IN (...); an empty or
\* absent list adds no condition, NULL is IN no list
PassFilters(d, c, protocol_ids, section_types) ==
  /\ \E r \in d.documents : r.id = c.document_id
  /\ protocol_ids # {} => DocOf(d, c).protocol_id \in protocol_ids \ {NULL}
  /\ section_types # {} => SectionTypeOf(d, c) \in section_types \ {NULL}

ResultRow(d, c, score) ==
  [chunk_id |-> c.id, document_id |-> c.document_id,
   protocol_id |-> DocOf(d, c).protocol_id, chunk_text |-> c.chunk_text,
   section_type |-> SectionTypeOf(d, c), score |-> score]

RowScore(r) == r.score

\* rows leave the engine in rowid order before ORDER BY is applied
RowsById(d, C) ==
  LET ids == Ascending({c.id : c \in C})
  IN [i \in 1..Len(ids) |-> CHOOSE c \in C : c.id = ids[i]]

fts_search(d, query, limit, protocol_ids, section_types) ==
  LET C == {c \in d.chunks :
              /\ \E f \in d.chunks_fts : f.rowid = c.id /\ FtsMatch(query, f.chunk_text)
              /\ PassFilters(d, c, protocol_ids, section_types)}
      rows == RowsById(d, C)
      raw == [i \in 1..Len(rows) |->
                ResultRow(d, rows[i], bm25(query, rows[i].chunk_text))]
      \* ORDER BY bm25(chunks_fts): ascending raw score
      ordered == SortDesc(raw, {p \in (1..Len(raw)) \X (1..Len(raw)) :
                                  RatLess(RatAbs(raw[p[1]].score), RatAbs(raw[p[2]].score))})
  IN [i \in 1..Min(limit, Len(ordered)) |->
        [ordered[i] EXCEPT !.score = RatAbs(@)]]

(***************************************************************************)
(* Vector Index (search/vector.py)                                         *)
(* A cosine similarity is kept exactly as <<sign, dot^2, |a|^2 |b|^2>>,    *)
(* standing for sign * sqrt(dot^2 / (|a|^2 |b|^2)); 0.0 is <<0, 0, 1>>.    *)
(***************************************************************************)
Dot(a, b) == SumSeq([i \in 1..Len(a) |-> a[i] * b[i]])

Sign(x) == IF x > 0 THEN 1 ELSE IF x < 0 THEN 0 - 1 ELSE 0

\* the quotient taken without the test of the norms: a zero norm makes the
\* divisor <<_, _, 0>>
_cosine_similarity_unguarded(a, b) ==
  IF Len(a) # Len(b) THEN <<0, 0, 1>>
  ELSE <<Sign(Dot(a, b)), Dot(a, b) * Dot(a, b), Dot(a, a) * Dot(b, b)>>

\* the similarity without the comparison of the lengths: zip() ends the dot
\* product at the shorter vector
_cosine_similarity_zip(a, b) ==
  LET dot == SumSeq([i \in 1..Min(Len(a), Len(b)) |-> a[i] * b[i]])
  IN IF Dot(a, a) = 0 \/ Dot(b, b) = 0 THEN <<0, 0, 1>>
     ELSE <<Sign(dot), dot * dot, Dot(a, a) * Dot(b, b)>>

_cosine_similarity(a, b) ==
  IF Len(a) # Len(b) THEN <<0, 0, 1>>
  ELSE IF Dot(a, a) = 0 \/ Dot(b, b) = 0 THEN <<0, 0, 1>>
  ELSE <<Sign(Dot(a, b)), Dot(a, b) * Dot(a, b), Dot(a, a) * Dot(b, b)>>

CosLess(x, y) ==
  IF x[1] # y[1] THEN x[1] < y[1]
  ELSE IF x[1] = 0 THEN FALSE
  ELSE IF x[1] = 1 THEN x[2] * y[3] < y[2] * x[3]
  ELSE y[2] * x[3] < x[2] * y[3]

\* a search that cuts the candidate rows to the limit before it ranks them
vector_search_first_rows(d, query, limit, protocol_ids, section_types) ==
  LET query_embedding == embed_query(query)
      C == {c \in d.chunks :
              /\ \E e \in d.embeddings : e.chunk_id = c.id
              /\ PassFilters(d, c, protocol_ids, section_types)}
      rows == Take(RowsById(d, C), limit)
      EmbOf(c) == unpack((CHOOSE e \in d.embeddings : e.chunk_id = c.id).embedding)
      results == [i \in 1..Len(rows) |->
                    ResultRow(d, rows[i],
                              _cosine_similarity(query_embedding, EmbOf(rows[i])))]
  IN SortDesc(results, {p \in (1..Len(results)) \X (1..Len(results)) :
                          CosLess(RowScore(results[p[1]]), RowScore(results[p[2]]))})

vector_search(d, query, limit, protocol_ids, section_types) ==
  LET query_embedding == embed_query(query)
      C == {c \in d.chunks :
              /\ \E e \in d.embeddings : e.chunk_id = c.id
              /\ PassFilters(d, c, protocol_ids, section_types)}
      rows == RowsById(d, C)
      EmbOf(c) == unpack((CHOOSE e \in d.embeddings : e.chunk_id = c.id).embedding)
      results == [i \in 1..Len(rows) |->
                    ResultRow(d, rows[i],
                              _cosine_similarity(query_embedding, EmbOf(rows[i])))]
      sorted == SortDesc(results, {p \in (1..Len(results)) \X (1..Len(results)) :
                                      CosLess(RowScore(results[p[1]]), RowScore(results[p[2]]))})
  IN Take(sorted, limit)

(***************************************************************************)
(* Fusion Ranker (search/hybrid.py)                                        *)
(***************************************************************************)
\* {r.chunk_id: i + 1 for i, r in enumerate(results)}: a later entry of the
\* same key replaces the earlier one
Ranks(results) ==
  [c \in {results[i].chunk_id : i \in 1..Len(results)} |->
     CHOOSE i \in 1..Len(results) :
       /\ results[i].chunk_id = c
       /\ \A j \in 1..Len(results) : results[j].chunk_id = c => j <= i]

\* an iteration order that is not the same in every run
PySetIterPerRun(S) ==
  LET asc == Ascending(S)
  IN IF last.runs = 0 THEN asc
     ELSE [i \in 1..Len(asc) |-> asc[Len(asc) + 1 - i]]

\* iteration order of a CPython set of small integers: hash(i) = i, and
\* keys below the smallest table size (8) sit in their own slot, so the
\* set iterates in ascending key order whatever the insertion order
PySetIter(S) == Ascending(S)

\* chunk_data: the lexical row of a chunk, else its vector row
ChunkData(fts_results, vector_results, chunk_id) ==
  IF \E i \in 1..Len(fts_results) : fts_results[i].chunk_id = chunk_id
  THEN fts_results[CHOOSE i \in 1..Len(fts_results) :
         /\ fts_results[i].chunk_id = chunk_id
         /\ \A j \in 1..Len(fts_results) : fts_results[j].chunk_id = chunk_id => j <= i]
  ELSE vector_results[CHOOSE i \in 1..Len(vector_results) :
         /\ vector_results[i].chunk_id = chunk_id
         /\ \A j \in 1..Len(vector_results) : vector_results[j].chunk_id = chunk_id => j >= i]

\* a rank counted from 0 instead of 1
RrfTermFromZero(rank) == Rat(1, RRF_K + rank - 1)

\* one term of the RRF sum: 1.0 / (self.RRF_K + rank)
RrfTerm(rank) == Rat(1, RRF_K + rank)

RrfScore(fts_ranks, vector_ranks, chunk_id) ==
  LET s0 == Rat(0, 1)
      s1 == IF chunk_id \in DOMAIN fts_ranks
            THEN RatAdd(s0, RrfTerm(fts_ranks[chunk_id])) ELSE s0
  IN IF chunk_id \in DOMAIN vector_ranks
     THEN RatAdd(s1, RrfTerm(vector_ranks[chunk_id])) ELSE s1

RrfSources(fts_ranks, vector_ranks, chunk_id) ==
  (IF chunk_id \in DOMAIN fts_ranks THEN <<"fts">> ELSE <<>>)
  \o (IF chunk_id \in DOMAIN vector_ranks THEN <<"vector">> ELSE <<>>)

\* a chunk of one source labelled like a chunk of both
SourceLabelAny(sources) == IF Len(sources) >= 1 THEN "hybrid" ELSE sources[1]

\* source = "hybrid" if len(sources) > 1 else sources[0]
SourceLabel(sources) == IF Len(sources) > 1 THEN "hybrid" ELSE sources[1]

\* the sort without reverse = True
SortedIdsAscending(all_chunk_ids, fts_ranks, vector_ranks) ==
  LET n == Len(all_chunk_ids)
      rrf_scores == [i \in 1..n |-> RrfScore(fts_ranks, vector_ranks, all_chunk_ids[i])]
  IN SortDesc(all_chunk_ids,
              {p \in (1..n) \X (1..n) : RatLess(rrf_scores[p[2]], rrf_scores[p[1]])})

\* sorted(rrf_scores.keys(), key = score, reverse = True); the keys of
\* rrf_scores are in the iteration order of the set all_chunk_ids
SortedIds(all_chunk_ids, fts_ranks, vector_ranks) ==
  LET n == Len(all_chunk_ids)
      rrf_scores == [i \in 1..n |-> RrfScore(fts_ranks, vector_ranks, all_chunk_ids[i])]
  IN SortDesc(all_chunk_ids,
              {p \in (1..n) \X (1..n) : RatLess(rrf_scores[p[1]], rrf_scores[p[2]])})

\* the fusion of two result lists, lines 122-191 of _hybrid_search
Fuse(fts_results, vector_results, limit) ==
  LET fts_ranks == Ranks(fts_results)
      vector_ranks == Ranks(vector_results)
      all_chunk_ids == PySetIter(DOMAIN fts_ranks \cup DOMAIN vector_ranks)
      sorted_ids == SortedIds(all_chunk_ids, fts_ranks, vector_ranks)
      top == Take(sorted_ids, limit)
  IN [i \in 1..Len(top) |->
        [ChunkData(fts_results, vector_results, top[i]) EXCEPT
           !.score = RrfScore(fts_ranks, vector_ranks, top[i])]
        @@ [source |-> SourceLabel(RrfSources(fts_ranks, vector_ranks, top[i]))]]

\* four candidates fetched per requested result
FetchLimitWide(limit) == limit * 4

\* fetch_limit = limit * 3
FetchLimit(limit) == limit * 3

_hybrid_search(d, query, limit, protocol_ids, section_types) ==
  Fuse(fts_search(d, query, FetchLimit(limit), protocol_ids, section_types),
       vector_search(d, query, FetchLimit(limit), protocol_ids, section_types),
       limit)

WithSource(results, source) ==
  [i \in 1..Len(results) |-> results[i] @@ [source |-> source]]

\* every mode answered by the fusion
SearchAlwaysFuses(d, query, limit, protocol_ids, section_types, mode) ==
  _hybrid_search(d, query, limit, protocol_ids, section_types)

\* HybridSearch.search: any mode other than "fts" and "vector" is hybrid
search(d, query, limit, protocol_ids, section_types, mode) ==
  IF mode = "fts"
  THEN WithSource(fts_search(d, query, limit, protocol_ids, section_types), "fts")
  ELSE IF mode = "vector"
  THEN WithSource(vector_search(d, query, limit, protocol_ids, section_types), "vector")
  ELSE _hybrid_search(d, query, limit, protocol_ids, section_types)

(***************************************************************************)
(* Storing a document (cli/ingest.py, _store_document) and the transaction *)
(* boundary (core/database.py, Database.cursor)                            *)
(***************************************************************************)
\* the loop over doc_data["sections"]; smap is section_id_map, as the
\* sequence of the keys given to the section indexes 0, 1, ...
RECURSIVE StoreSections(_, _, _, _)
StoreSections(d, doc_id, sections, smap) ==
  IF sections = <<>> THEN [ok |-> TRUE, db |-> d, smap |-> smap]
  ELSE LET r == InsertSection(d, doc_id, Head(sections))
       IN IF ~ r.ok THEN [ok |-> FALSE, db |-> d, smap |-> smap]
          ELSE StoreSections(r.db, doc_id, Tail(sections), Append(smap, r.id))

\* section_id_map.get(chunk.get("section_index"))
SectionIdOf(smap, section_index) ==
  IF section_index >= 0 /\ section_index < Len(smap)
  THEN smap[section_index + 1] ELSE 0

\* zip(chunks, embeddings)
ZipLen(chunks, embeddings) == Min(Len(chunks), Len(embeddings))

\* chunk_index of the i-th pair of enumerate(zip(chunks, embeddings))
ChunkIndexOf(i) == i

\* an iteration that stores the chunk and leaves its embedding out
StoreChunkNoEmbedding(d, doc_id, smap, i, chunk, embedding) ==
  LET c == InsertChunk(d, doc_id, SectionIdOf(smap, chunk.section_index),
                       ChunkIndexOf(i), chunk)
  IN IF ~ c.ok THEN Raise(d)
     ELSE IF chunk.chunk_type = "criterion"
     THEN InsertCriterion(c.db, doc_id, chunk, c.id)
     ELSE Ok(c.db)

\* one iteration of the loop over enumerate(zip(chunks, embeddings))
StoreChunk(d, doc_id, smap, i, chunk, embedding) ==
  LET c == InsertChunk(d, doc_id, SectionIdOf(smap, chunk.section_index),
                       ChunkIndexOf(i), chunk)
  IN IF ~ c.ok THEN Raise(d)
     ELSE LET e == InsertEmbedding(c.db, c.id, pack(embedding))
          IN IF ~ e.ok THEN Raise(d)
             ELSE IF chunk.chunk_type = "criterion"
             THEN InsertCriterion(e.db, doc_id, chunk, c.id)
             ELSE Ok(e.db)

\* a cursor that commits whatever happened inside the with-block
cursor_exit_commits(committed, working, raised) == working

\* leaving the with-block of Database.cursor: conn.commit() makes the
\* transaction's contents the stored ones, conn.rollback() drops them
cursor_exit(committed, working, raised) ==
  IF raised THEN committed ELSE working

Procs == {1, 2}

IdleJob ==
  [kind |-> "none", path |-> NULL, force |-> FALSE, protocol_id |-> NULL,
   target |-> 0, doc_id |-> 0, smap |-> <<>>, i |-> 0, err |-> "none"]

NoSearch == [runs |-> 0, args |-> <<>>, result |-> <<>>]

NoFusion == [phase |-> "none", fts |-> <<>>, vec |-> <<>>, limit |-> 0, out |-> <<>>]

NoCompare == [phase |-> "none", args |-> <<>>, pool |-> <<>>, out |-> <<>>]

NoSegment == [phase |-> "none", section |-> <<>>, out |-> <<>>]

NoCall == [phase |-> "none", args |-> <<>>, out |-> <<>>]

Terminal == {"idle", "done", "exit", "error"}

InTransaction == {"sections", "chunks"}

\* SQLite lets one connection write at a time
WriteLocked(p) == \E q \in Procs \ {p} : pc[q] \in InTransaction

DocData(j) == parse_document(j.path, j.protocol_id)

ChunksOf(j) == chunk_document(DocData(j))

EmbeddingsOf(j) ==
  embed_batch(embedding_model,
              [i \in 1..Len(ChunksOf(j)) |-> ChunksOf(j)[i].chunk_text])

\* the command of p is over: what is left of its local variables
Finished(j, outcome) ==
  [IdleJob EXCEPT !.kind = j.kind, !.i = j.i, !.err = outcome,
                  !.force = j.force /\ j.target # 0]

Init ==
  /\ db = EmptyDb
  /\ fn = NoCall
  /\ pc = [p \in Procs |-> "idle"]
  /\ job = [p \in Procs |-> IdleJob]
  /\ txn = [p \in Procs |-> EmptyDb]
  /\ last = NoSearch
  /\ fus = NoFusion
  /\ cmp = NoCompare
  /\ seg = NoSegment

(***************************************************************************)
(* ingest add <file_path> [--protocol-id P] [--force]                       *)
(***************************************************************************)
\* a command that replaces a stored document whether --force is given or not
IngestAddReplaces(p, path, force, protocol_id) ==
  /\ pc[p] \in Terminal
  /\ LET existing == get_document_by_path(db, resolve(path))
         j == [IdleJob EXCEPT !.kind = "ingest", !.path = path, !.force = force,
                              !.protocol_id = protocol_id, !.target = existing]
     IN IF existing # 0
        THEN /\ pc' = [pc EXCEPT ![p] = "delete"]
             /\ job' = [job EXCEPT ![p] = j]
        ELSE /\ pc' = [pc EXCEPT ![p] = "parse"]
             /\ job' = [job EXCEPT ![p] = j]
  /\ UNCHANGED <<db, txn, last, fus, cmp, seg, fn>>

\* lines 36-54: look the resolved path up, refuse or schedule the removal
IngestAdd(p, path, force, protocol_id) ==
  /\ pc[p] \in Terminal
  /\ LET existing == get_document_by_path(db, resolve(path))
         j == [IdleJob EXCEPT !.kind = "ingest", !.path = path, !.force = force,
                              !.protocol_id = protocol_id, !.target = existing]
     IN IF existing # 0 /\ ~ force
        THEN /\ pc' = [pc EXCEPT ![p] = "exit"]
             /\ job' = [job EXCEPT ![p] = Finished(j, "already")]
        ELSE IF existing # 0 /\ force
        THEN /\ pc' = [pc EXCEPT ![p] = "delete"]
             /\ job' = [job EXCEPT ![p] = j]
        ELSE /\ pc' = [pc EXCEPT ![p] = "parse"]
             /\ job' = [job EXCEPT ![p] = j]
  /\ UNCHANGED <<db, txn, last, fus, cmp, seg, fn>>

\* a forced re-ingest that leaves the removal of the old document to later
DeleteDocumentDeferred(p) ==
  /\ pc[p] = "delete"
  /\ ~ WriteLocked(p)
  /\ LET r == DeleteDocumentRow(db, job[p].target)
     IN IF job[p].kind = "ingest"
        THEN /\ db' = db
             /\ pc' = [pc EXCEPT ![p] = "parse"]
             /\ job' = job
        ELSE /\ db' = cursor_exit(db, r.db, ~ r.ok)
             /\ pc' = [pc EXCEPT ![p] = IF r.ok THEN "done" ELSE "error"]
             /\ job' = [job EXCEPT ![p] =
                          Finished(job[p], IF r.ok THEN "deleted" ELSE "constraint")]
  /\ UNCHANGED <<txn, last, fus, cmp, seg, fn>>

\* Database.delete_document, called by ingest add --force (line 53) and by
\* ingest remove (line 259)
DeleteDocument(p) ==
  /\ pc[p] = "delete"
  /\ ~ WriteLocked(p)
  /\ LET r == DeleteDocumentRow(db, job[p].target)
     IN /\ db' = cursor_exit(db, r.db, ~ r.ok)
        /\ IF ~ r.ok
           THEN /\ pc' = [pc EXCEPT ![p] = "error"]
                /\ job' = [job EXCEPT ![p] = Finished(job[p], "constraint")]
           ELSE IF job[p].kind = "ingest"
           THEN /\ pc' = [pc EXCEPT ![p] = "parse"]
                /\ job' = job
           ELSE /\ pc' = [pc EXCEPT ![p] = "done"]
                /\ job' = [job EXCEPT ![p] =
                             Finished(job[p],
                                      IF get_document_by_id(db, job[p].target) # 0
                                      THEN "deleted" ELSE "missing")]
  /\ UNCHANGED <<txn, last, fus, cmp, seg, fn>>

\* a statement that has to write while another connection holds the write
\* lock raises "database is locked" once the busy timeout is over
Busy(p) ==
  /\ pc[p] \in {"delete", "parse"}
  /\ WriteLocked(p)
  /\ pc' = [pc EXCEPT ![p] = "error"]
  /\ job' = [job EXCEPT ![p] = Finished(job[p], "locked")]
  /\ UNCHANGED <<db, txn, last, fus, cmp, seg, fn>>

\* lines 61-82: parse_document, chunk_document or embed_batch raises
PrepareFails(p) ==
  /\ pc[p] = "parse"
  /\ pc' = [pc EXCEPT ![p] = "error"]
  /\ job' = [job EXCEPT ![p] = Finished(job[p], "prepare")]
  /\ UNCHANGED <<db, txn, last, fus, cmp, seg, fn>>

\* _store_document, line 102-125: the transaction opens with the INSERT
\* INTO documents; a second row of the same filepath is refused
StoreDocumentRow(p) ==
  /\ pc[p] = "parse"
  /\ ~ WriteLocked(p)
  /\ db.seq.documents < MaxDocId
  /\ db.seq.chunks + Len(ChunksOf(job[p])) <= MaxChunkId
  /\ LET r == InsertDocument(db, DocData(job[p]))
     IN IF r.ok
        THEN /\ txn' = [txn EXCEPT ![p] = r.db]
             /\ pc' = [pc EXCEPT ![p] = "sections"]
             /\ job' = [job EXCEPT ![p].doc_id = r.id]
             /\ db' = db
        ELSE /\ db' = cursor_exit(db, r.db, TRUE)
             /\ txn' = txn
             /\ pc' = [pc EXCEPT ![p] = "error"]
             /\ job' = [job EXCEPT ![p] = Finished(job[p], "unique")]
  /\ UNCHANGED <<last, fus, cmp, seg, fn>>

\* lines 127-147: the section rows
StoreSectionRows(p) ==
  /\ pc[p] = "sections"
  /\ LET r == StoreSections(txn[p], job[p].doc_id, DocData(job[p]).sections, <<>>)
     IN IF r.ok
        THEN /\ txn' = [txn EXCEPT ![p] = r.db]
             /\ pc' = [pc EXCEPT ![p] = "chunks"]
             /\ job' = [job EXCEPT ![p].smap = r.smap, ![p].i = 0]
             /\ db' = db
        ELSE /\ db' = cursor_exit(db, r.db, TRUE)
             /\ txn' = [txn EXCEPT ![p] = EmptyDb]
             /\ pc' = [pc EXCEPT ![p] = "error"]
             /\ job' = [job EXCEPT ![p] = Finished(job[p], "constraint")]
  /\ UNCHANGED <<last, fus, cmp, seg, fn>>

\* lines 149-193: one chunk with its embedding and its criterion row
StoreChunkRows(p) ==
  /\ pc[p] = "chunks"
  /\ job[p].i < ZipLen(ChunksOf(job[p]), EmbeddingsOf(job[p]))
  /\ LET i == job[p].i
         r == StoreChunk(txn[p], job[p].doc_id, job[p].smap, i,
                         ChunksOf(job[p])[i + 1], EmbeddingsOf(job[p])[i + 1])
     IN IF r.ok
        THEN /\ txn' = [txn EXCEPT ![p] = r.db]
             /\ job' = [job EXCEPT ![p].i = i + 1]
             /\ pc' = pc
             /\ db' = db
        ELSE /\ db' = cursor_exit(db, r.db, TRUE)
             /\ txn' = [txn EXCEPT ![p] = EmptyDb]
             /\ pc' = [pc EXCEPT ![p] = "error"]
             /\ job' = [job EXCEPT ![p] = Finished(job[p], "constraint")]
  /\ UNCHANGED <<last, fus, cmp, seg, fn>>

\* an exception inside the with-block (struct.pack of a malformed vector, a
\* value the driver cannot bind, an I/O error): rollback, then re-raise
StoreRaises(p) ==
  /\ pc[p] \in InTransaction
  /\ db' = cursor_exit(db, txn[p], TRUE)
  /\ txn' = [txn EXCEPT ![p] = EmptyDb]
  /\ pc' = [pc EXCEPT ![p] = "error"]
  /\ job' = [job EXCEPT ![p] = Finished(job[p], "rolledback")]
  /\ UNCHANGED <<last, fus, cmp, seg, fn>>

\* the with-block is left normally: commit, return doc_id
StoreCommit(p) ==
  /\ pc[p] = "chunks"
  /\ job[p].i = ZipLen(ChunksOf(job[p]), EmbeddingsOf(job[p]))
  /\ db' = cursor_exit(db, txn[p], FALSE)
  /\ txn' = [txn EXCEPT ![p] = EmptyDb]
  /\ pc' = [pc EXCEPT ![p] = "done"]
  /\ job' = [job EXCEPT ![p] = Finished(job[p], "none")]
  /\ UNCHANGED <<last, fus, cmp, seg, fn>>

(***************************************************************************)
(* ingest remove <doc_id>                                                  *)
(***************************************************************************)
\* lines 247-257: unknown id, or the user does not confirm
IngestRemove(p, doc_id, confirm) ==
  /\ pc[p] \in Terminal
  /\ LET j == [IdleJob EXCEPT !.kind = "remove", !.target = doc_id]
     IN IF get_document_by_id(db, doc_id) = 0
        THEN /\ pc' = [pc EXCEPT ![p] = "exit"]
             /\ job' = [job EXCEPT ![p] = Finished(j, "notfound")]
        ELSE IF ~ confirm
        THEN /\ pc' = [pc EXCEPT ![p] = "exit"]
             /\ job' = [job EXCEPT ![p] = Finished(j, "aborted")]
        ELSE /\ pc' = [pc EXCEPT ![p] = "delete"]
             /\ job' = [job EXCEPT ![p] = j]
  /\ UNCHANGED <<db, txn, last, fus, cmp, seg, fn>>

Next ==
  \E p \in Procs :
    \/ \E path \in PathArgs, force \in BOOLEAN :
         IngestAdd(p, path, force, NULL)
    \/ DeleteDocument(p)
    \/ Busy(p)
    \/ PrepareFails(p)
    \/ StoreDocumentRow(p)
    \/ StoreSectionRows(p)
    \/ StoreChunkRows(p)
    \/ StoreRaises(p)
    \/ StoreCommit(p)
    \/ \E doc_id \in 1..MaxDocId, confirm \in BOOLEAN :
         IngestRemove(p, doc_id, confirm)

Spec == Init /\ [][Next]_vars

(***************************************************************************)
(* One client at a time: each command runs to its end before the next      *)
(* starts, and search requests are served in between                        *)
(***************************************************************************)
\* the loop over the chunks from pair i on; the with-block raises once
\* raise_at pairs are stored (raise_at < 0: it does not raise)
RECURSIVE StoreChunksFrom(_, _, _, _, _, _, _)
StoreChunksFrom(d, doc_id, smap, i, chunks, embeddings, raise_at) ==
  IF i = raise_at THEN Raise(d)
  ELSE IF i >= ZipLen(chunks, embeddings) THEN Ok(d)
  ELSE LET r == StoreChunk(d, doc_id, smap, i, chunks[i + 1], embeddings[i + 1])
       IN IF ~ r.ok THEN Raise(d)
          ELSE StoreChunksFrom(r.db, doc_id, smap, i + 1, chunks, embeddings, raise_at)

\* _store_document as a whole: the contents the database has when the
\* call returns or raises
_store_document(d, doc_data, chunks, embeddings, raise_at) ==
  LET doc == InsertDocument(d, doc_data)
      sec == StoreSections(doc.db, doc.id, doc_data.sections, <<>>)
      chk == StoreChunksFrom(sec.db, doc.id, sec.smap, 0, chunks, embeddings, raise_at)
  IN IF ~ doc.ok THEN Raise(cursor_exit(d, doc.db, TRUE))
     ELSE IF ~ sec.ok THEN Raise(cursor_exit(d, sec.db, TRUE))
     ELSE IF ~ chk.ok THEN Raise(cursor_exit(d, chk.db, TRUE))
     ELSE OkId(cursor_exit(d, chk.db, FALSE), doc.id)

\* Database.delete_document as a whole
delete_document(d, doc_id) ==
  LET r == DeleteDocumentRow(d, doc_id)
  IN cursor_exit(d, r.db, ~ r.ok)

\* ingest_add as a whole; prepare_fails: parsing, chunking or embedding
\* raises
ingest_add(d, path, force, protocol_id, model_name, prepare_fails, raise_at) ==
  LET existing == get_document_by_path(d, resolve(path))
      doc_data == parse_document(path, protocol_id)
      chunks == chunk_document(doc_data)
      embeddings == embed_batch(model_name,
                                [i \in 1..Len(chunks) |-> chunks[i].chunk_text])
      d1 == IF existing # 0 THEN delete_document(d, existing) ELSE d
  IN IF existing # 0 /\ ~ force THEN d
     ELSE IF prepare_fails THEN d1
     ELSE _store_document(d1, doc_data, chunks, embeddings, raise_at).db

SearchModes == {"fts", "vector", "hybrid", "lexical"}

ProtocolFilters == {{}, {"P1"}}

SectionFilters == {{}, {"other"}, {"inclusion_criteria"}}

Invalidate(d) == IF d = db THEN last ELSE NoSearch

QIngest(path, force, protocol_id, model_name, prepare_fails, raise_at) ==
  /\ db.seq.documents < MaxDocId
  /\ db.seq.chunks + Len(chunk_document(parse_document(path, protocol_id))) <= MaxChunkId
  /\ db' = ingest_add(db, path, force, protocol_id, model_name, prepare_fails, raise_at)
  /\ last' = Invalidate(db')
  /\ UNCHANGED <<pc, job, txn, fus, cmp, seg, fn>>

QRemove(doc_id) ==
  /\ get_document_by_id(db, doc_id) # 0
  /\ db' = delete_document(db, doc_id)
  /\ last' = Invalidate(db')
  /\ UNCHANGED <<pc, job, txn, fus, cmp, seg, fn>>

\* a new request; the client has read the answer to the previous one
QSearch(query, limit, protocol_ids, section_types, mode) ==
  LET args == [query |-> query, limit |-> limit, protocol_ids |-> protocol_ids,
               section_types |-> section_types, mode |-> mode]
  IN /\ last.runs = 0
     /\ last' = [runs |-> 1, args |-> args,
                 result |-> search(db, query, limit, protocol_ids, section_types, mode)]
     /\ UNCHANGED <<db, pc, job, txn, fus, cmp, seg, fn>>

\* the same request once more
QSearchAgain ==
  /\ last.runs >= 1
  /\ last' = [runs |-> 2, args |-> last.args,
              result |-> search(db, last.args.query, last.args.limit,
                                last.args.protocol_ids, last.args.section_types,
                                last.args.mode)]
  /\ UNCHANGED <<db, pc, job, txn, fus, cmp, seg, fn>>

\* the client drops the answer
QForget ==
  /\ last.runs >= 1
  /\ last' = NoSearch
  /\ UNCHANGED <<db, pc, job, txn, fus, cmp, seg, fn>>

\* where an ingest can go wrong: while preparing, or inside the with-block
\* after raise_at chunks
Faults ==
  {[prepare_fails |-> TRUE, raise_at |-> 0 - 1]}
  \cup {[prepare_fails |-> FALSE, raise_at |-> k] : k \in (0 - 1)..2}

NextQuery ==
  \/ \E path \in PathArgs, force \in BOOLEAN, protocol_id \in ProtoOpts, f \in Faults :
       QIngest(path, force, protocol_id, embedding_model, f.prepare_fails, f.raise_at)
  \/ \E doc_id \in 1..MaxDocId : QRemove(doc_id)
  \/ \E query \in Queries, limit \in 1..MaxLimit, protocol_ids \in ProtocolFilters,
        section_types \in SectionFilters, mode \in SearchModes :
       QSearch(query, limit, protocol_ids, section_types, mode)
  \/ QSearchAgain
  \/ QForget

SpecQuery == Init /\ [][NextQuery]_vars

(***************************************************************************)
(* Ingests run under either value of EMBEDDING_MODEL, and searches that     *)
(* scan the stored embeddings with the query embedding of the default model *)
(***************************************************************************)
ScanModes == {"vector", "hybrid"}

NextEmbed ==
  \/ \E path \in PathArgs, force \in BOOLEAN, model_name \in EmbeddingModels :
       QIngest(path, force, NULL, model_name, FALSE, 0 - 1)
  \/ \E doc_id \in 1..MaxDocId : QRemove(doc_id)
  \/ \E query \in Queries, limit \in 1..MaxLimit, mode \in ScanModes :
       QSearch(query, limit, {}, {}, mode)
  \/ QForget

SpecEmbed == Init /\ [][NextEmbed]_vars

(***************************************************************************)
(* Fusion on its own: two source lists as the indexes can return them for   *)
(* one request. Both lists are taken from the same filtered candidates, and *)
(* the vector scan ranks all of them before it cuts at 3 * limit.           *)
(***************************************************************************)
FusionIds == 1..MaxFusionIds

FtsRow(c) ==
  [chunk_id |-> c, document_id |-> 1, protocol_id |-> NULL, chunk_text |-> <<c>>,
   section_type |-> NULL, score |-> Rat(1, 1)]

VecRow(c) ==
  [chunk_id |-> c, document_id |-> 1, protocol_id |-> NULL, chunk_text |-> <<c>>,
   section_type |-> NULL, score |-> <<1, 1, 1>>]

\* the inputs of one fusion: the lists the two indexes return for a request
\* of the given limit when the chunks of keys C match it
FusionInputs(limit, C) ==
  {[phase |-> "in", limit |-> limit,
    fts |-> [i \in 1..Len(f) |-> FtsRow(f[i])],
    vec |-> [i \in 1..Len(v) |-> VecRow(v[i])],
    out |-> <<>>] :
      f \in InjSeqs(C, FetchLimit(limit)),
      v \in InjSeqsOfLen(C, Min(FetchLimit(limit), Cardinality(C)))}

InitFusion ==
  /\ db = EmptyDb
  /\ fn = NoCall
  /\ pc = [p \in Procs |-> "idle"]
  /\ job = [p \in Procs |-> IdleJob]
  /\ txn = [p \in Procs |-> EmptyDb]
  /\ last = NoSearch
  /\ cmp = NoCompare
  /\ seg = NoSegment
  /\ \E limit \in 0..MaxLimit, C \in SUBSET FusionIds :
       fus \in FusionInputs(limit, C)

RunFusion ==
  /\ fus.phase = "in"
  /\ fus' = [fus EXCEPT !.phase = "out", !.out = Fuse(fus.fts, fus.vec, fus.limit)]
  /\ UNCHANGED <<db, pc, job, txn, last, cmp, seg, fn>>

NextFusion == RunFusion

SpecFusion == InitFusion /\ [][NextFusion]_vars

(***************************************************************************)
(* Semantic Matcher (analysis/comparison.py)                               *)
(***************************************************************************)
\* SIMILARITY_THRESHOLD = 0.85, as the rational 17 / 20
SIMILARITY_THRESHOLD == <<17, 20>>

\* ProtocolComparer._cosine_similarity: no length check; zip() ends the dot
\* product at the shorter vector, each norm runs over its whole vector
ComparerCosine(a, b) ==
  LET dot == SumSeq([i \in 1..Min(Len(a), Len(b)) |-> a[i] * b[i]])
  IN IF Dot(a, a) = 0 \/ Dot(b, b) = 0 THEN <<0, 0, 1>>
     ELSE <<Sign(dot), dot * dot, Dot(a, a) * Dot(b, b)>>

\* similarity > threshold, for a positive threshold
AboveThreshold(similarity, threshold) ==
  /\ similarity[1] = 1
  /\ similarity[2] * threshold[2] * threshold[2]
       > threshold[1] * threshold[1] * similarity[3]

\* similarity >= threshold, for a positive threshold
MeetsThreshold(similarity, threshold) ==
  /\ similarity[1] = 1
  /\ similarity[2] * threshold[2] * threshold[2]
       >= threshold[1] * threshold[1] * similarity[3]

\* {k: v for k, v in c.items() if k != "embedding"}
WithoutEmbedding(c) == [k \in (DOMAIN c) \ {"embedding"} |-> c[k]]

\* the loop body that compares criteria of one protocol as well
PairOfAnyProtocol(c1, c2) ==
  LET similarity == ComparerCosine(c1.embedding, c2.embedding)
  IN IF MeetsThreshold(similarity, SIMILARITY_THRESHOLD)
     THEN <<[criteria |-> <<WithoutEmbedding(c1), WithoutEmbedding(c2)>>,
             similarity |-> similarity,
             protocols |-> <<c1.protocol_id, c2.protocol_id>>]>>
     ELSE <<>>

\* the body of the two loops for the pair (c1, c2): the pairs it appends
PairOf(c1, c2) ==
  LET similarity == ComparerCosine(c1.embedding, c2.embedding)
  IN IF c1.protocol_id = c2.protocol_id THEN <<>>
     ELSE IF MeetsThreshold(similarity, SIMILARITY_THRESHOLD)
     THEN <<[criteria |-> <<WithoutEmbedding(c1), WithoutEmbedding(c2)>>,
             similarity |-> similarity,
             protocols |-> <<c1.protocol_id, c2.protocol_id>>]>>
     ELSE <<>>

\* for i, c1 in enumerate(all_criteria): for c2 in all_criteria[i + 1:]
RECURSIVE SimilarFrom(_, _, _)
SimilarFrom(all_criteria, i, j) ==
  IF i > Len(all_criteria) THEN <<>>
  ELSE IF j > Len(all_criteria) THEN SimilarFrom(all_criteria, i + 1, i + 2)
  ELSE PairOf(all_criteria[i], all_criteria[j])
       \o SimilarFrom(all_criteria, i, j + 1)

_find_similar_criteria(all_criteria) == SimilarFrom(all_criteria, 1, 2)

\* SELECT * FROM documents WHERE protocol_id = ? ... fetchone(): the row of
\* the lowest key among the documents of that protocol (0: no row)
get_document_by_protocol_id(d, protocol_id) ==
  LET ids == {r.id : r \in {x \in d.documents : x.protocol_id = protocol_id}}
  IN IF ids = {} THEN 0 ELSE CHOOSE i \in ids : \A j \in ids : i <= j

\* ORDER BY criterion_type, criterion_number: "exclusion" sorts before
\* "inclusion"; rows of equal keys come in key order
CriterionBefore(r1, r2) ==
  IF r1.criterion_type # r2.criterion_type
  THEN r1.criterion_type = "exclusion"
  ELSE IF r1.criterion_number # r2.criterion_number
  THEN r1.criterion_number < r2.criterion_number
  ELSE r1.id < r2.id

RECURSIVE OrderedCriteria(_)
OrderedCriteria(R) ==
  IF R = {} THEN <<>>
  ELSE LET r == CHOOSE x \in R : \A y \in R \ {x} : CriterionBefore(x, y)
       IN <<r>> \o OrderedCriteria(R \ {r})

_get_criteria(d, doc_id, criterion_type) ==
  OrderedCriteria({r \in d.eligibility_criteria :
                     /\ r.document_id = doc_id
                     /\ criterion_type = "all" \/ r.criterion_type = criterion_type})

\* lines 117-123: the dict criteria_by_protocol as the sequence of its items;
\* a protocol id given twice keeps its first place
RECURSIVE CriteriaByProtocol(_, _, _, _)
CriteriaByProtocol(d, protocol_ids, criterion_type, acc) ==
  IF protocol_ids = <<>> THEN acc
  ELSE LET pid == Head(protocol_ids)
           doc == get_document_by_protocol_id(d, pid)
       IN IF doc = 0 \/ (\E k \in 1..Len(acc) : acc[k].pid = pid)
          THEN CriteriaByProtocol(d, Tail(protocol_ids), criterion_type, acc)
          ELSE CriteriaByProtocol(d, Tail(protocol_ids), criterion_type,
                 Append(acc, [pid |-> pid,
                              criteria |-> _get_criteria(d, doc, criterion_type)]))

\* lines 132-136: c["protocol_id"] = pid; all_criteria.append(c)
RECURSIVE AllCriteria(_)
AllCriteria(criteria_by_protocol) ==
  IF criteria_by_protocol = <<>> THEN <<>>
  ELSE LET e == Head(criteria_by_protocol)
       IN [i \in 1..Len(e.criteria) |->
             [k \in (DOMAIN e.criteria[i]) \cup {"protocol_id"} |->
                IF k = "protocol_id" THEN e.pid ELSE e.criteria[i][k]]]
          \o AllCriteria(Tail(criteria_by_protocol))

\* lines 145-148: for c, emb in zip(all_criteria, embeddings)
Embedded(all_criteria) ==
  LET embeddings == embed_batch(embedding_model, [i \in 1..Len(all_criteria) |->
                                   all_criteria[i].criterion_text])
  IN [i \in 1..Min(Len(all_criteria), Len(embeddings)) |->
        [k \in (DOMAIN all_criteria[i]) \cup {"embedding"} |->
           IF k = "embedding" THEN embeddings[i] ELSE all_criteria[i][k]]]

\* matched_ids that records the first criterion of each pair only
MatchedIdsFirstOnly(similar_pairs) ==
  {<<similar_pairs[i].criteria[1].id, similar_pairs[i].criteria[1].protocol_id>> :
     i \in 1..Len(similar_pairs)}

\* lines 154-157: the (id, protocol_id) of both criteria of every pair
MatchedIds(similar_pairs) ==
  {<<similar_pairs[i].criteria[1].id, similar_pairs[i].criteria[1].protocol_id>> :
     i \in 1..Len(similar_pairs)}
  \cup
  {<<similar_pairs[i].criteria[2].id, similar_pairs[i].criteria[2].protocol_id>> :
     i \in 1..Len(similar_pairs)}

\* [c for c in criteria if (c["id"], pid) not in matched_ids]
RECURSIVE UniqueOf(_, _, _)
UniqueOf(criteria, pid, matched_ids) ==
  IF criteria = <<>> THEN <<>>
  ELSE (IF <<Head(criteria).id, pid>> \notin matched_ids
        THEN <<Head(criteria)>> ELSE <<>>)
       \o UniqueOf(Tail(criteria), pid, matched_ids)

\* lines 159-166: the dict unique_criteria as the sequence of its items; a
\* protocol without unique criteria has no item
RECURSIVE UniqueCriteria(_, _)
UniqueCriteria(criteria_by_protocol, matched_ids) ==
  IF criteria_by_protocol = <<>> THEN <<>>
  ELSE LET e == Head(criteria_by_protocol)
           unique == UniqueOf(e.criteria, e.pid, matched_ids)
       IN (IF unique # <<>> THEN <<[pid |-> e.pid, criteria |-> unique]>> ELSE <<>>)
          \o UniqueCriteria(Tail(criteria_by_protocol), matched_ids)

compare_eligibility(d, protocol_ids, criterion_type) ==
  LET criteria_by_protocol == CriteriaByProtocol(d, protocol_ids, criterion_type, <<>>)
      all_criteria == AllCriteria(criteria_by_protocol)
      similar_pairs == _find_similar_criteria(Embedded(all_criteria))
      matched_ids == MatchedIds(similar_pairs)
  IN IF criteria_by_protocol = <<>> \/ all_criteria = <<>>
     THEN [protocols |-> protocol_ids, criteria_by_protocol |-> criteria_by_protocol,
           similar_criteria |-> <<>>, unique_criteria |-> <<>>]
     ELSE [protocols |-> protocol_ids, criteria_by_protocol |-> criteria_by_protocol,
           similar_criteria |-> similar_pairs,
           unique_criteria |-> UniqueCriteria(criteria_by_protocol, matched_ids)]

(***************************************************************************)
(* The matcher on pooled criteria lists                                    *)
(***************************************************************************)
\* the embeddings the pooled criteria carry: a unit vector, vectors at
\* cosine 0.85, 0.90 and 16 / sqrt(367) (below 0.85) to it, the zero vector
MatchVectors ==
  <<<<1, 0, 0, 0, 0>>, <<17, 10, 3, 1, 1>>, <<9, 3, 3, 1, 0>>,
    <<16, 10, 3, 1, 1>>, <<0, 0, 0, 0, 0>>>>

\* the protocol whose criteria compare_eligibility fetched from document doc
PoolProtocol(doc) == IF doc = 1 THEN "P1" ELSE "P2"

\* the pooled list: the criteria of document 1, then those of document 2;
\* vs[i] is the embedding of the i-th criterion, n1 the size of the first block
Pool(vs, n1) ==
  [i \in 1..Len(vs) |->
     [id |-> i, document_id |-> IF i <= n1 THEN 1 ELSE 2,
      criterion_type |-> "inclusion", criterion_number |-> i,
      criterion_text |-> <<vs[i]>>, category |-> NULL, chunk_id |-> i,
      protocol_id |-> PoolProtocol(IF i <= n1 THEN 1 ELSE 2),
      embedding |-> MatchVectors[vs[i]]]]

\* the pooled lists of n criteria
MatchInputs(n) ==
  {Pool(vs, n1) : vs \in [1..n -> 1..Len(MatchVectors)], n1 \in 0..n}

InitMatch ==
  /\ db = EmptyDb
  /\ fn = NoCall
  /\ pc = [p \in Procs |-> "idle"]
  /\ job = [p \in Procs |-> IdleJob]
  /\ txn = [p \in Procs |-> EmptyDb]
  /\ last = NoSearch
  /\ fus = NoFusion
  /\ seg = NoSegment
  /\ \E n \in 0..MaxPool : \E pool \in MatchInputs(n) :
       cmp = [NoCompare EXCEPT !.phase = "in", !.pool = pool]

RunMatch ==
  /\ cmp.phase = "in"
  /\ cmp' = [cmp EXCEPT !.phase = "matched", !.out = _find_similar_criteria(cmp.pool)]
  /\ UNCHANGED <<db, pc, job, txn, last, fus, seg, fn>>

NextMatch == RunMatch

SpecMatch == InitMatch /\ [][NextMatch]_vars

(***************************************************************************)
(* compare eligibility, between ingests and removals                        *)
(***************************************************************************)
ComparePaths == {"/a", "a", "/c"}

CompareArgs ==
  {<<"P1", "P3">>, <<"P3", "P1">>, <<"P1", "P2">>, <<"P2", "P3", "P1">>,
   <<"P1", "P1">>, <<"P3">>, <<"P1", "PX">>}

CriterionTypes == {"all", "inclusion", "exclusion"}

QCompare(protocol_ids, criterion_type) ==
  /\ cmp.phase = "none"
  /\ cmp' = [NoCompare EXCEPT
               !.phase = "compared",
               !.args = [protocol_ids |-> protocol_ids,
                         criterion_type |-> criterion_type],
               !.out = compare_eligibility(db, protocol_ids, criterion_type)]
  /\ UNCHANGED <<db, pc, job, txn, last, fus, seg, fn>>

\* the caller is done with the result
QCompareDone ==
  /\ cmp.phase = "compared"
  /\ cmp' = NoCompare
  /\ UNCHANGED <<db, pc, job, txn, last, fus, seg, fn>>

NextCompare ==
  \/ \E path \in ComparePaths, force \in BOOLEAN, protocol_id \in ProtoOpts :
       cmp.phase = "none" /\ QIngest(path, force, protocol_id, embedding_model, FALSE, 0 - 1)
  \/ \E doc_id \in 1..MaxDocId : cmp.phase = "none" /\ QRemove(doc_id)
  \/ \E protocol_ids \in CompareArgs, criterion_type \in CriterionTypes :
       QCompare(protocol_ids, criterion_type)
  \/ QCompareDone

SpecCompare == Init /\ [][NextCompare]_vars

(***************************************************************************)
(* The segmenter on single sections                                        *)
(***************************************************************************)
\* the lines a criteria section is made of: "1. Age >= 18" (8 characters),
\* "2. Prior diagnosis of X" (20), "0. ..." , "(3) ...", "a) ...", "(b) ...",
\* a dash item, a short bullet item, a long and a short unmarked line
CriteriaLines ==
  {[mk |-> "num", n |-> 1, len |-> 8, words |-> 3, kw |-> {"demographic"}],
   [mk |-> "num", n |-> 2, len |-> 20, words |-> 4, kw |-> {"clinical"}],
   [mk |-> "num", n |-> 0, len |-> 30, words |-> 5, kw |-> {}],
   [mk |-> "pnum", n |-> 3, len |-> 25, words |-> 4, kw |-> {}],
   [mk |-> "let", n |-> OrdA, len |-> 25, words |-> 4, kw |-> {}],
   [mk |-> "plet", n |-> OrdA + 1, len |-> 25, words |-> 4, kw |-> {}],
   [mk |-> "dash", n |-> 0, len |-> 25, words |-> 4, kw |-> {"consent"}],
   [mk |-> "bullet", n |-> 0, len |-> 9, words |-> 2, kw |-> {}],
   [mk |-> "none", n |-> 0, len |-> 25, words |-> 4, kw |-> {}],
   [mk |-> "none", n |-> 0, len |-> 5, words |-> 1, kw |-> {}]}

\* the word counts of the sentences of a narrative section: 24.7, 49.4,
\* 50.7, 260 and 520 approximate tokens
SentenceWords == {19, 38, 39, 200, 400}

\* a text of the given lines; the content of a line is named by its place
TextOf(ls) ==
  [i \in 1..Len(ls) |-> Line(ls[i].mk, ls[i].n, ls[i].len, ls[i].words, i, ls[i].kw)]

\* the criteria sections of n lines
CriteriaInputs(n) ==
  {[index |-> 0, section_type |-> st, raw_text |-> TextOf(ls)] :
     ls \in [1..n -> CriteriaLines],
     st \in {"inclusion_criteria", "exclusion_criteria"}}

\* the narrative sections of n sentences
NarrativeInputs(n) ==
  {[index |-> 0, section_type |-> "study_design",
    raw_text |-> TextOf([i \in 1..n |->
                           [mk |-> "none", n |-> 0, len |-> 6 * ws[i],
                            words |-> ws[i], kw |-> {}]])] :
     ws \in [1..n -> SentenceWords]}

InitSegment ==
  /\ db = EmptyDb
  /\ fn = NoCall
  /\ pc = [p \in Procs |-> "idle"]
  /\ job = [p \in Procs |-> IdleJob]
  /\ txn = [p \in Procs |-> EmptyDb]
  /\ last = NoSearch
  /\ fus = NoFusion
  /\ cmp = NoCompare
  /\ \/ \E n \in 1..MaxLines : \E section \in CriteriaInputs(n) :
          seg = [NoSegment EXCEPT !.phase = "in", !.section = section]
     \/ \E n \in 1..MaxSentences : \E section \in NarrativeInputs(n) :
          seg = [NoSegment EXCEPT !.phase = "in", !.section = section]

RunSegment ==
  /\ seg.phase = "in"
  /\ seg' = [seg EXCEPT !.phase = "out", !.out = _chunk_section(seg.section)]
  /\ UNCHANGED <<db, pc, job, txn, last, fus, cmp, fn>>

NextSegment == RunSegment

SpecSegment == InitSegment /\ [][NextSegment]_vars

(***************************************************************************)
(* The lexical query builder on its own (search/fts.py, _build_fts_query): *)
(* a query text is a sequence of characters, a word a sequence of          *)
(* characters without a blank, an indexed text a sequence of words         *)
(***************************************************************************)
special_chars == {"\"", "*", "^", ":", "(", ")", "{", "}", "[", "]"}

\* for char in special_chars: query = query.replace(char, " ")
StripSpecial(query) ==
  [i \in 1..Len(query) |-> IF query[i] \in special_chars THEN " " ELSE query[i]]

\* str.split(): the maximal runs of characters other than blanks; word is
\* the run being read
RECURSIVE Split(_, _)
Split(text, word) ==
  IF text = <<>> THEN (IF word = <<>> THEN <<>> ELSE <<word>>)
  ELSE IF Head(text) = " "
  THEN (IF word = <<>> THEN <<>> ELSE <<word>>) \o Split(Tail(text), <<>>)
  ELSE Split(Tail(text), Append(word, Head(text)))

\* one term of an FTS5 query: "w1 w2 ..." or "w"*
Phrase(words, prefix) == [words |-> words, prefix |-> prefix]

\* the FTS5 query as the sequence of the terms joined by OR
_build_fts_query(query) ==
  LET stripped == StripSpecial(query)
      words == Split(stripped, <<>>)
      Long(w) == Len(w) >= 2
      kept == SelectSeq(words, Long)
  IN IF words = <<>> THEN <<Phrase(<<>>, FALSE)>>
     ELSE IF kept = <<>> THEN <<Phrase(words, FALSE)>>
     ELSE [i \in 1..Len(kept) |-> Phrase(<<kept[i]>>, TRUE)]

\* word w starts with the characters of t
StartsWith(w, t) == Len(t) <= Len(w) /\ \A i \in 1..Len(t) : w[i] = t[i]

\* FTS5 phrase match: the words of the phrase stand next to each other in
\* the text, the last one as a prefix when the term ends in *; the empty
\* phrase matches no row
PhraseMatch(term, text) ==
  LET n == Len(term.words)
  IN /\ n >= 1
     /\ \E p \in 0..(Len(text) - n) :
          \A i \in 1..n :
            IF i = n /\ term.prefix THEN StartsWith(text[p + i], term.words[i])
            ELSE text[p + i] = term.words[i]

\* chunks_fts MATCH fts_query
Fts5Match(fts_query, text) ==
  \E k \in 1..Len(fts_query) : PhraseMatch(fts_query[k], text)

\* the indexed chunk texts: "a b", "ab", "b a", "ba bb"
IndexTexts ==
  <<<< <<"a">>, <<"b">> >>, << <<"a", "b">> >>, << <<"b">>, <<"a">> >>,
    << <<"b", "a">>, <<"b", "b">> >> >>

\* FTSSearch.search on that index: the built query and the rows it matches
LexicalSearch(query) ==
  LET fts_query == _build_fts_query(query)
  IN [fts_query |-> fts_query,
      rows |-> {i \in 1..Len(IndexTexts) : Fts5Match(fts_query, IndexTexts[i])}]

QueryChars == {"a", "b", " ", "*"}

QueryTexts(n) == [1..n -> QueryChars]

InitLexical ==
  /\ db = EmptyDb
  /\ pc = [p \in Procs |-> "idle"]
  /\ job = [p \in Procs |-> IdleJob]
  /\ txn = [p \in Procs |-> EmptyDb]
  /\ last = NoSearch
  /\ fus = NoFusion
  /\ cmp = NoCompare
  /\ seg = NoSegment
  /\ \E n \in 0..MaxQueryLen : \E query \in QueryTexts(n) :
       fn = [NoCall EXCEPT !.phase = "in", !.args = query]

RunLexical ==
  /\ fn.phase = "in"
  /\ fn' = [fn EXCEPT !.phase = "searched", !.out = LexicalSearch(fn.args)]
  /\ UNCHANGED <<db, pc, job, txn, last, fus, cmp, seg>>

NextLexical == RunLexical

SpecLexical == InitLexical /\ [][NextLexical]_vars

(***************************************************************************)
(* The embedding codec on its own: struct.pack in _store_document and      *)
(* struct.unpack in VectorSearch.search, on vectors as the embedder yields *)
(* them: model.encode returns single precision arrays, and tolist() turns  *)
(* each element into the Python float of the same value                    *)
(***************************************************************************)
\* single precision values, among them values at and above 2^24, where
\* neighbouring integers are no single precision values any more
Float32Values == {0, 1, 0 - 1, 3, F32Exact, F32Exact + 2, 0 - (F32Exact + 2)}

EncodedVectors(n) == [1..n -> Float32Values]

InitCodec ==
  /\ db = EmptyDb
  /\ pc = [p \in Procs |-> "idle"]
  /\ job = [p \in Procs |-> IdleJob]
  /\ txn = [p \in Procs |-> EmptyDb]
  /\ last = NoSearch
  /\ fus = NoFusion
  /\ cmp = NoCompare
  /\ seg = NoSegment
  /\ \E n \in 0..MaxDim : \E embedding \in EncodedVectors(n) :
       fn = [NoCall EXCEPT !.phase = "in", !.args = embedding]

\* the vector is stored by an ingest and read back by a vector scan
RunCodec ==
  /\ fn.phase = "in"
  /\ fn' = [fn EXCEPT !.phase = "decoded", !.out = unpack(pack(fn.args))]
  /\ UNCHANGED <<db, pc, job, txn, last, fus, cmp, seg>>

NextCodec == RunCodec

SpecCodec == InitCodec /\ [][NextCodec]_vars

(***************************************************************************)
(* The fused scores at the ranks a request can produce: chunk 2 stands in  *)
(* both candidate lists, chunk 1 in the lexical list only, chunk 3 in the  *)
(* vector list only, each at any rank up to the fetch limit.  The limits   *)
(* are those on both sides of the point where 3 * limit passes RRF_K, and  *)
(* a small one.                                                            *)
(***************************************************************************)
RankLimits == {1, 20, 21}

\* the rank dictionaries of lines 123-124 for the three chunks
RankDicts(rank, fts_rank, vector_rank) ==
  [fts_ranks |-> (1 :> rank) @@ (2 :> fts_rank),
   vector_ranks |-> (2 :> vector_rank) @@ (3 :> rank)]

InitRank ==
  /\ db = EmptyDb
  /\ pc = [p \in Procs |-> "idle"]
  /\ job = [p \in Procs |-> IdleJob]
  /\ txn = [p \in Procs |-> EmptyDb]
  /\ last = NoSearch
  /\ fus = NoFusion
  /\ cmp = NoCompare
  /\ seg = NoSegment
  /\ \E limit \in RankLimits :
       \E rank \in 1..FetchLimit(limit), fts_rank \in 1..FetchLimit(limit),
          vector_rank \in 1..FetchLimit(limit) :
         /\ rank # fts_rank
         /\ rank # vector_rank
         /\ fn = [NoCall EXCEPT
                    !.phase = "in",
                    !.args = [limit |-> limit]
                             @@ RankDicts(rank, fts_rank, vector_rank)]

\* lines 126-169 of _hybrid_search on the three chunks: scores, provenance
\* labels and the sorted order
RunRank ==
  /\ fn.phase = "in"
  /\ fn' = [fn EXCEPT
              !.phase = "ranked",
              !.out = [score |-> [c \in 1..3 |->
                                   RrfScore(fn.args.fts_ranks, fn.args.vector_ranks, c)],
                       source |-> [c \in 1..3 |->
                                    SourceLabel(RrfSources(fn.args.fts_ranks,
                                                           fn.args.vector_ranks, c))],
                       order |-> SortedIds(PySetIter(1..3), fn.args.fts_ranks,
                                           fn.args.vector_ranks)]]
  /\ UNCHANGED <<db, pc, job, txn, last, fus, cmp, seg>>

NextRank == RunRank

SpecRank == InitRank /\ [][NextRank]_vars

(***************************************************************************)
(* Properties of the fusion ranker                                         *)
(***************************************************************************)
(* The two cosine similarities on their own: pairs of vectors of up to      *)
(* MaxDim components, the empty and the zero vectors among them             *)
(***************************************************************************)
Components == {0 - 1, 0, 1}

Vectors(n) == [1..n -> Components]

InitCosine ==
  /\ db = EmptyDb
  /\ pc = [p \in Procs |-> "idle"]
  /\ job = [p \in Procs |-> IdleJob]
  /\ txn = [p \in Procs |-> EmptyDb]
  /\ last = NoSearch
  /\ fus = NoFusion
  /\ cmp = NoCompare
  /\ seg = NoSegment
  /\ \E n \in 0..MaxDim, m \in 0..MaxDim : \E a \in Vectors(n), b \in Vectors(m) :
       fn = [NoCall EXCEPT !.phase = "in", !.args = <<a, b>>]

\* VectorSearch._cosine_similarity(a, b)
RunVectorCosine ==
  /\ fn.phase = "in"
  /\ fn' = [fn EXCEPT !.phase = "vector",
                      !.out = _cosine_similarity(fn.args[1], fn.args[2])]
  /\ UNCHANGED <<db, pc, job, txn, last, fus, cmp, seg>>

\* ProtocolComparer._cosine_similarity(a, b)
RunComparerCosine ==
  /\ fn.phase = "in"
  /\ fn' = [fn EXCEPT !.phase = "comparer",
                      !.out = ComparerCosine(fn.args[1], fn.args[2])]
  /\ UNCHANGED <<db, pc, job, txn, last, fus, cmp, seg>>

NextCosine == RunVectorCosine \/ RunComparerCosine

SpecCosine == InitCosine /\ [][NextCosine]_vars

(***************************************************************************)
Ids(list) == {list[i].chunk_id : i \in 1..Len(list)}

\* 1-based position of chunk c in a source list that holds it
PosIn(list, c) == CHOOSE i \in 1..Len(list) : list[i].chunk_id = c

\* the fused score the contract prescribes for candidate c
ContractScore(c) ==
  LET inF == c \in Ids(fus.fts)
      inV == c \in Ids(fus.vec)
      a == RRF_K + PosIn(fus.fts, c)
      b == RRF_K + PosIn(fus.vec, c)
  IN IF inF /\ inV THEN Rat(a + b, a * b)
     ELSE IF inF THEN Rat(1, a)
     ELSE Rat(1, b)

Candidates == Ids(fus.fts) \cup Ids(fus.vec)

\* C1: in hybrid mode the score of every returned result is the sum, over
\* the source lists holding the chunk, of 1/(K + rank) with rank its 1-based
\* position; a chunk ranked first in both lists scores 2/(K+1), which is
\* strictly more than the 1/(K+1) of a chunk ranked first in one list only.
C1_RrfScore ==
  fus.phase = "out" =>
    \A k \in 1..Len(fus.out) :
      LET r == fus.out[k]
      IN /\ RatEq(r.score, ContractScore(r.chunk_id))
         /\ (/\ r.chunk_id \in Ids(fus.fts) \cap Ids(fus.vec)
             /\ PosIn(fus.fts, r.chunk_id) = 1
             /\ PosIn(fus.vec, r.chunk_id) = 1)
            => /\ RatEq(r.score, Rat(2, RRF_K + 1))
               /\ RatLess(Rat(1, RRF_K + 1), r.score)

C1_Witness ==
  /\ fus.phase = "out"
  /\ Len(fus.out) >= 2
  /\ fus.out[1].chunk_id \in Ids(fus.fts) \cap Ids(fus.vec)
  /\ PosIn(fus.fts, fus.out[1].chunk_id) = 1
  /\ PosIn(fus.vec, fus.out[1].chunk_id) = 1
  /\ fus.out[2].chunk_id \notin Ids(fus.fts) \cap Ids(fus.vec)

\* the place of candidate c when the lexical list is walked first and the
\* vector list second
Encounter(c) ==
  IF c \in Ids(fus.fts) THEN PosIn(fus.fts, c)
  ELSE Len(fus.fts) + PosIn(fus.vec, c)

OutPos(c) == CHOOSE k \in 1..Len(fus.out) : fus.out[k].chunk_id = c

\* C2: in hybrid mode two candidates of identical fused score come out in
\* source-list encounter order: the one met first when the lexical list and
\* then the vector list is walked is placed earlier.
C2_TieEncounterOrder ==
  fus.phase = "out" =>
    \A a, b \in Candidates :
      (/\ RatEq(ContractScore(a), ContractScore(b))
       /\ Encounter(a) < Encounter(b)
       /\ b \in Ids(fus.out))
      => /\ a \in Ids(fus.out)
         /\ OutPos(a) < OutPos(b)

\* C4: the fused list holds each chunk at most once, is sorted by
\* non-increasing score, has min(limit, number of distinct candidates)
\* entries and leaves out no candidate that scores strictly more than a
\* returned one; each source was asked for at most 3 * limit candidates.
C4_TopLimit ==
  fus.phase = "out" =>
    /\ Len(fus.fts) <= 3 * fus.limit
    /\ Len(fus.vec) <= 3 * fus.limit
    /\ \A i, j \in 1..Len(fus.out) :
         i # j => fus.out[i].chunk_id # fus.out[j].chunk_id
    /\ \A i \in 1..(Len(fus.out) - 1) :
         ~ RatLess(fus.out[i].score, fus.out[i + 1].score)
    /\ Len(fus.out) = Min(fus.limit, Cardinality(Candidates))
    /\ Ids(fus.out) \subseteq Candidates
    /\ \A c \in Candidates \ Ids(fus.out) :
         \A k \in 1..Len(fus.out) :
           ~ RatLess(ContractScore(fus.out[k].chunk_id), ContractScore(c))

C4_Witness ==
  /\ fus.phase = "out"
  /\ Len(fus.out) = fus.limit
  /\ Len(fus.out) >= 2
  /\ Cardinality(Candidates) > fus.limit
  /\ RatLess(fus.out[2].score, fus.out[1].score)

\* C5: every result records its provenance: "hybrid" exactly when the chunk
\* is in both candidate lists, the lexical label ("fts") when it is in the
\* lexical list only, the semantic label ("vector") when it is in the
\* vector list only.
C5_Provenance ==
  fus.phase = "out" =>
    \A k \in 1..Len(fus.out) :
      LET r == fus.out[k]
          inF == r.chunk_id \in Ids(fus.fts)
          inV == r.chunk_id \in Ids(fus.vec)
      IN /\ r.source = "hybrid" <=> (inF /\ inV)
         /\ (inF /\ ~ inV) => r.source = "fts"
         /\ (inV /\ ~ inF) => r.source = "vector"

C5_Witness ==
  /\ fus.phase = "out"
  /\ \E i, j \in 1..Len(fus.out) :
       /\ fus.out[i].source = "hybrid"
       /\ fus.out[j].source = "vector"
       /\ fus.out[j].chunk_id \notin Ids(fus.fts)

C6_Bypass ==
  last.runs >= 1 =>
    LET a == last.args
        lex == fts_search(db, a.query, a.limit, a.protocol_ids, a.section_types)
        sem == vector_search(db, a.query, a.limit, a.protocol_ids, a.section_types)
        Same(res, idx, src) ==
          /\ Len(res) = Len(idx)
          /\ \A i \in 1..Len(res) :
               /\ res[i].chunk_id = idx[i].chunk_id
               /\ res[i].document_id = idx[i].document_id
               /\ res[i].protocol_id = idx[i].protocol_id
               /\ res[i].chunk_text = idx[i].chunk_text
               /\ res[i].section_type = idx[i].section_type
               /\ res[i].score = idx[i].score
               /\ res[i].source = src
    IN /\ a.mode = "fts" => Same(last.result, lex, "fts")
       /\ a.mode = "vector" => Same(last.result, sem, "vector")

C6_Witness ==
  /\ last.runs >= 1
  /\ last.args.mode = "fts"
  /\ Len(last.result) >= 2
  /\ LET a == last.args
         h == _hybrid_search(db, a.query, a.limit, a.protocol_ids, a.section_types)
     IN /\ Len(h) >= 2
        /\ h[1].chunk_id # last.result[1].chunk_id

(***************************************************************************)
(* Properties of the retrieval store                                       *)
(***************************************************************************)
\* the requests the store properties are probed with
ProbeArgs ==
  {[query |-> q, limit |-> l, mode |-> m] :
     q \in Queries, l \in 1..MaxLimit, m \in SearchModes}

\* some search on contents d returns one of the chunks cids
Returned(d, cids) ==
  /\ cids # {}
  /\ \E a \in ProbeArgs :
       LET res == search(d, a.query, a.limit, {}, {}, a.mode)
       IN \E i \in 1..Len(res) : res[i].chunk_id \in cids

\* contents d hold a row of document doc_id or of its chunks cids
HoldsRowOf(d, doc_id, cids) ==
  \/ \E r \in d.documents : r.id = doc_id
  \/ \E r \in d.sections : r.document_id = doc_id
  \/ \E r \in d.chunks : r.document_id = doc_id \/ r.id \in cids
  \/ \E r \in d.embeddings : r.chunk_id \in cids
  \/ \E r \in d.eligibility_criteria : r.document_id = doc_id \/ r.chunk_id \in cids
  \/ \E r \in d.chunks_fts : r.rowid \in cids

ChunkIdsOf(d, doc_id) == {c.id : c \in {r \in d.chunks : r.document_id = doc_id}}

\* C7: the insert of a document with its sections, chunks, embeddings and
\* criteria is one transaction: when an insert inside it fails, the
\* transaction is rolled back before the exception propagates; the store
\* then is what it was, holds no document, section, chunk, embedding,
\* criterion or index row of that document, and no search returns a chunk
\* of it.
C7_Rollback ==
  [][\A p \in Procs :
       (/\ pc[p] \in InTransaction \cup {"parse"}
        /\ pc'[p] = "error")
       => LET cids == IF pc[p] \in InTransaction
                      THEN ChunkIdsOf(txn[p], job[p].doc_id) ELSE {}
              doc_id == IF pc[p] \in InTransaction
                        THEN job[p].doc_id ELSE db.seq.documents + 1
          IN /\ db' = db
             /\ ~ HoldsRowOf(db', doc_id, cids)
             /\ ~ Returned(db', cids)]_vars

C7_Witness ==
  \E p \in Procs :
    /\ pc[p] = "error"
    /\ job[p].err = "rolledback"
    /\ job[p].i >= 1
    /\ db.documents # {}

\* C8: after delete_document(id) succeeded for a stored document, no
\* section, chunk, embedding or criterion of that document is left, no
\* search returns one of its chunks, and the rows of every other document
\* are what they were.
C8_Cascade ==
  [][\A p \in Procs :
       (/\ pc[p] = "delete"
        /\ pc'[p] \in {"parse", "done"}
        /\ get_document_by_id(db, job[p].target) # 0)
       => LET doc_id == job[p].target
              cids == ChunkIdsOf(db, doc_id)
          IN /\ ~ HoldsRowOf(db', doc_id, cids)
             /\ ~ Returned(db', cids)
             /\ db'.documents = {r \in db.documents : r.id # doc_id}
             /\ db'.sections = {r \in db.sections : r.document_id # doc_id}
             /\ db'.chunks = {r \in db.chunks : r.document_id # doc_id}
             /\ db'.embeddings = {r \in db.embeddings : r.chunk_id \notin cids}
             /\ db'.eligibility_criteria =
                  {r \in db.eligibility_criteria : r.document_id # doc_id}
             /\ db'.chunks_fts = {r \in db.chunks_fts : r.rowid \notin cids}]_vars

C8_Witness ==
  \E p \in Procs :
    /\ pc[p] = "done"
    /\ job[p].kind = "remove"
    /\ job[p].err = "deleted"
    /\ db.chunks # {}
    /\ db.eligibility_criteria # {}

UniquePaths(d) ==
  \A r1, r2 \in d.documents : r1.filepath = r2.filepath => r1 = r2

C10_ChunkRows ==
  [][\A p \in Procs :
       (pc[p] = "chunks" /\ pc'[p] = "done")
       => LET rows == {r \in db'.chunks : r.document_id = job[p].doc_id}
              segs == chunk_document(parse_document(job[p].path, job[p].protocol_id))
          IN /\ Cardinality(rows) = Len(segs)
             /\ {r.chunk_index : r \in rows} = 0..(Len(segs) - 1)
             /\ \A r \in rows :
                  /\ r.chunk_text = segs[r.chunk_index + 1].chunk_text
                  /\ r.chunk_type = segs[r.chunk_index + 1].chunk_type]_vars

C10_Witness ==
  \E p \in Procs :
    /\ pc[p] = "done"
    /\ job[p].kind = "ingest"
    /\ \E r1, r2 \in db.chunks :
         /\ r1.document_id = r2.document_id
         /\ r1.chunk_index = 0
         /\ r2.chunk_index = 1

(***************************************************************************)
(* C11: in every reachable store state, after any sequence of successful   *)
(* ingests, failed ingests, forced re-ingests and deletes, every stored    *)
(* chunk has exactly one embedding row and every embedding row references  *)
(* an existing chunk.  It is stated for the committed contents and for the *)
(* contents of every open transaction between two loop iterations.         *)
(***************************************************************************)
OneEmbeddingPerChunk(d) ==
  /\ \A c \in d.chunks : Cardinality({e \in d.embeddings : e.chunk_id = c.id}) = 1
  /\ \A e \in d.embeddings : \E c \in d.chunks : c.id = e.chunk_id

C11_EmbeddingPerChunk ==
  /\ OneEmbeddingPerChunk(db)
  /\ \A p \in Procs : pc[p] = "chunks" => OneEmbeddingPerChunk(txn[p])

\* a store that holds chunks after a document was deleted and while the
\* other client finished with a rolled back ingest
C11_Witness ==
  /\ db.chunks # {}
  /\ db.seq.documents > Cardinality(db.documents)
  /\ \E p \in Procs : pc[p] = "error" /\ job[p].err = "rolledback" /\ job[p].i >= 1

(***************************************************************************)
(* Properties of the semantic matcher                                      *)
(***************************************************************************)
\* the cosine of a and b is at least num / den (num, den > 0), from the
\* definition of the cosine
CosineAtLeast(a, b, num, den) ==
  /\ Dot(a, b) > 0
  /\ Dot(a, b) * Dot(a, b) * den * den >= num * num * Dot(a, a) * Dot(b, b)

\* the cosine of a and b is exactly num / den
CosineIs(a, b, num, den) ==
  /\ Dot(a, b) > 0
  /\ Dot(a, b) * Dot(a, b) * den * den = num * num * Dot(a, a) * Dot(b, b)

\* the reported pairs that join the pooled criteria of keys i and j
PairsJoining(i, j) ==
  {k \in 1..Len(cmp.out) :
     {cmp.out[k].criteria[1].id, cmp.out[k].criteria[2].id} = {i, j}}

(***************************************************************************)
(* C12: the matcher never reports a pair whose two criteria belong to the  *)
(* same document, whatever their similarity, and two criteria of different *)
(* documents at similarity 0.90 are reported as a pair.                    *)
(***************************************************************************)
C12_CrossDocumentOnly ==
  cmp.phase = "matched" =>
    /\ \A k \in 1..Len(cmp.out) :
         cmp.out[k].criteria[1].document_id # cmp.out[k].criteria[2].document_id
    /\ \A i, j \in 1..Len(cmp.pool) :
         (/\ i < j
          /\ cmp.pool[i].document_id # cmp.pool[j].document_id
          /\ CosineIs(cmp.pool[i].embedding, cmp.pool[j].embedding, 9, 10))
         => PairsJoining(i, j) # {}

\* a pool with two criteria of one document at similarity 1.0 and a
\* criterion of the other document at 0.90 to them, the latter reported
C12_Witness ==
  /\ cmp.phase = "matched"
  /\ \E i, j, l \in 1..Len(cmp.pool) :
       /\ i < j
       /\ cmp.pool[i].document_id = cmp.pool[j].document_id
       /\ CosineIs(cmp.pool[i].embedding, cmp.pool[j].embedding, 1, 1)
       /\ cmp.pool[l].document_id # cmp.pool[i].document_id
       /\ CosineIs(cmp.pool[i].embedding, cmp.pool[l].embedding, 9, 10)
       /\ PairsJoining(i, l) # {}

(***************************************************************************)
(* C13: for any pooled list the matcher reports every unordered pair of    *)
(* criteria of different documents whose cosine similarity is at least     *)
(* 0.85 (inclusive) exactly once, and no pair whose similarity is below.   *)
(***************************************************************************)
C13_ThresholdInclusive ==
  cmp.phase = "matched" =>
    /\ \A i, j \in 1..Len(cmp.pool) :
         (i < j /\ cmp.pool[i].document_id # cmp.pool[j].document_id)
         => Cardinality(PairsJoining(i, j))
              = IF CosineAtLeast(cmp.pool[i].embedding, cmp.pool[j].embedding, 17, 20)
                THEN 1 ELSE 0
    /\ \A k \in 1..Len(cmp.out) :
         \E i, j \in 1..Len(cmp.pool) :
           /\ i < j
           /\ cmp.out[k].criteria[1] = WithoutEmbedding(cmp.pool[i])
           /\ cmp.out[k].criteria[2] = WithoutEmbedding(cmp.pool[j])
           /\ CosineAtLeast(cmp.pool[i].embedding, cmp.pool[j].embedding, 17, 20)

\* a pair at exactly 0.85 is reported while a pair of different documents
\* below 0.85 is in the pool
C13_Witness ==
  /\ cmp.phase = "matched"
  /\ \E i, j, l \in 1..Len(cmp.pool) :
       /\ cmp.pool[i].document_id # cmp.pool[j].document_id
       /\ CosineIs(cmp.pool[i].embedding, cmp.pool[j].embedding, 17, 20)
       /\ PairsJoining(i, j) # {}
       /\ cmp.pool[i].document_id # cmp.pool[l].document_id
       /\ Dot(cmp.pool[i].embedding, cmp.pool[l].embedding) > 0
       /\ ~ CosineAtLeast(cmp.pool[i].embedding, cmp.pool[l].embedding, 17, 20)
       /\ PairsJoining(i, l) = {}

(***************************************************************************)
(* C14: reported pairs are deduplicated: for every criterion c and every   *)
(* partner document D, at most one reported pair joins c with a criterion  *)
(* of D.                                                                   *)
(***************************************************************************)
C14_OnePairPerPartner ==
  cmp.phase = "matched" =>
    \A i \in 1..Len(cmp.pool) :
      \A D \in {cmp.pool[j].document_id : j \in 1..Len(cmp.pool)} :
        Cardinality({j \in 1..Len(cmp.pool) :
                       /\ cmp.pool[j].document_id = D
                       /\ PairsJoining(i, j) # {}}) <= 1

(***************************************************************************)
(* C15: in compare_eligibility a fetched criterion of a compared document  *)
(* is in that document's unique set if and only if it appears in no        *)
(* reported pair; so when two compared documents hold the same criterion   *)
(* text, one pair joining the two entries is reported and neither entry is *)
(* reported as unique.                                                     *)
(***************************************************************************)
\* the keys of the criteria reported as unique for protocol pid
UniqueIds(pid) ==
  UNION {{cmp.out.unique_criteria[k].criteria[i].id :
            i \in 1..Len(cmp.out.unique_criteria[k].criteria)} :
         k \in {x \in 1..Len(cmp.out.unique_criteria) :
                  cmp.out.unique_criteria[x].pid = pid}}

\* the keys of the criteria that appear in a reported pair
PairedIds ==
  UNION {{cmp.out.similar_criteria[k].criteria[1].id,
          cmp.out.similar_criteria[k].criteria[2].id} :
         k \in 1..Len(cmp.out.similar_criteria)}

\* the fetched criteria, each with the position of its protocol
Fetched ==
  UNION {{[e |-> k, c |-> cmp.out.criteria_by_protocol[k].criteria[i]] :
            i \in 1..Len(cmp.out.criteria_by_protocol[k].criteria)} :
         k \in 1..Len(cmp.out.criteria_by_protocol)}

C15_UniqueIffUnmatched ==
  cmp.phase = "compared" =>
    /\ \A f \in Fetched :
         f.c.id \in UniqueIds(cmp.out.criteria_by_protocol[f.e].pid)
           <=> f.c.id \notin PairedIds
    /\ \A f, g \in Fetched :
         (f.e < g.e /\ f.c.criterion_text = g.c.criterion_text)
         => /\ Cardinality({k \in 1..Len(cmp.out.similar_criteria) :
                              /\ cmp.out.similar_criteria[k].criteria[1].id = f.c.id
                              /\ cmp.out.similar_criteria[k].criteria[2].id = g.c.id}) = 1
            /\ f.c.id \notin UniqueIds(cmp.out.criteria_by_protocol[f.e].pid)
            /\ g.c.id \notin UniqueIds(cmp.out.criteria_by_protocol[g.e].pid)

\* two compared documents share a criterion text, a pair is reported, and
\* one of the documents has a criterion of its own reported as unique
C15_Witness ==
  /\ cmp.phase = "compared"
  /\ \E f, g, h \in Fetched :
       /\ f.e < g.e
       /\ f.c.criterion_text = g.c.criterion_text
       /\ {f.c.id, g.c.id} \subseteq PairedIds
       /\ h.c.id \notin PairedIds
       /\ h.c.id \in UniqueIds(cmp.out.criteria_by_protocol[h.e].pid)

(***************************************************************************)
(* Properties of the segmenter                                             *)
(***************************************************************************)
IsCriteriaSection ==
  seg.section.section_type \in {"inclusion_criteria", "exclusion_criteria"}

\* the line of the section a criterion chunk starts with
ItemOf(chunk) == seg.section.raw_text[chunk.chunk_text[1]]

\* the section has a line the criterion pattern recognises as an item
HasItems == \E i \in 1..Len(seg.section.raw_text) : seg.section.raw_text[i].mk # "none"

(***************************************************************************)
(* C16: for the criteria section "1. Age >= 18\n2. Prior diagnosis of X"   *)
(* the segmenter yields exactly two criterion chunks, numbered 1 and 2:    *)
(* every digit-marked item of a criteria section yields one criterion      *)
(* chunk.                                                                  *)
(***************************************************************************)
C16_ChunkPerNumberedItem ==
  (/\ seg.phase = "out"
   /\ IsCriteriaSection
   /\ \A i \in 1..Len(seg.section.raw_text) : seg.section.raw_text[i].mk = "num")
  => /\ Len(seg.out) = Len(seg.section.raw_text)
     /\ \A i \in 1..Len(seg.out) :
          /\ seg.out[i].chunk_type = "criterion"
          /\ seg.out[i].criterion_number = seg.section.raw_text[i].n

(***************************************************************************)
(* C17: the criterion number of each produced criterion chunk is derived   *)
(* from its marker: the integer N for N. N) (N), the letter's alphabet     *)
(* position for a. a) (a), and k for the k-th bullet or dash item          *)
(* encountered in the section.                                             *)
(***************************************************************************)
\* how many bullet or dash items the section has up to line p
UnmarkedUpTo(p) ==
  Cardinality({i \in 1..p : seg.section.raw_text[i].mk \in {"bullet", "dash"}})

C17_NumberFromMarker ==
  (seg.phase = "out" /\ IsCriteriaSection /\ HasItems)
  => \A i \in 1..Len(seg.out) :
       LET l == ItemOf(seg.out[i])
       IN seg.out[i].criterion_number =
            IF l.mk \in {"num", "pnum"} THEN l.n
            ELSE IF l.mk \in {"let", "plet"} THEN l.n - 96
            ELSE UnmarkedUpTo(seg.out[i].chunk_text[1])

(***************************************************************************)
(* C18: every criterion chunk carries the criterion type inclusion for an  *)
(* inclusion_criteria section and exclusion for an exclusion_criteria      *)
(* section, and a criterion number that is an integer >= 1, on the marker  *)
(* path and on the line-fallback path.                                     *)
(***************************************************************************)
C18_TypeAndNumber ==
  seg.phase = "out" =>
    \A i \in 1..Len(seg.out) :
      seg.out[i].chunk_type = "criterion" =>
        /\ seg.section.section_type = "inclusion_criteria"
             => seg.out[i].criterion_type = "inclusion"
        /\ seg.section.section_type = "exclusion_criteria"
             => seg.out[i].criterion_type = "exclusion"
        /\ seg.out[i].criterion_number \in Nat \ {0}

(***************************************************************************)
(* C19: when a narrative section is split into two or more chunks, then    *)
(* for every consecutive pair of chunks (i, i+1) the longest run of        *)
(* trailing sentences of chunk i whose cumulative approximate token count  *)
(* (words x 1.3 per sentence) is at most the overlap budget reappears      *)
(* verbatim and in order as the head of chunk i+1, followed by at least    *)
(* one sentence that is new.                                               *)
(***************************************************************************)
\* the words of the last k sentences of a chunk
TailWords(chunk, k) ==
  SumSeq([j \in 1..k |->
            seg.section.raw_text[chunk.chunk_text[Len(chunk.chunk_text) - k + j]].words])

\* the length of the longest run of trailing sentences within the budget:
\* words x 1.3 <= budget, that is 13 x words <= 10 x budget
TailRun(chunk) ==
  CHOOSE k \in 0..Len(chunk.chunk_text) :
    /\ 13 * TailWords(chunk, k) <= 10 * chunk_overlap
    /\ \A m \in (k + 1)..Len(chunk.chunk_text) :
         13 * TailWords(chunk, m) > 10 * chunk_overlap

C19_Overlap ==
  (seg.phase = "out" /\ ~ IsCriteriaSection /\ Len(seg.out) >= 2)
  => \A i \in 1..(Len(seg.out) - 1) :
       LET a == seg.out[i].chunk_text
           b == seg.out[i + 1].chunk_text
           k == TailRun(seg.out[i])
       IN /\ Len(b) >= k + 1
          /\ SubSeq(b, 1, k) = SubSeq(a, Len(a) - k + 1, Len(a))
          /\ \A j \in (k + 1)..Len(b) : b[j] > a[Len(a)]

\* three chunks: the second starts with a run of two sentences of the first,
\* the third with none of the second
C19_Witness ==
  /\ seg.phase = "out"
  /\ ~ IsCriteriaSection
  /\ Len(seg.out) >= 3
  /\ \E i, j \in 1..(Len(seg.out) - 1) :
       /\ TailRun(seg.out[i]) = 2
       /\ TailRun(seg.out[j]) = 0

(***************************************************************************)
(* C20: vector search returns min(limit, N) results, N being the number of *)
(* stored chunk embeddings that pass the filters; the results are sorted   *)
(* by non-increasing cosine similarity to the query embedding, and every   *)
(* candidate that is not returned has a similarity less than or equal to   *)
(* the lowest returned one.                                                *)
(***************************************************************************)
\* the stored embeddings whose chunk passes the filters of the last request
VectorCandidates ==
  {e \in db.embeddings :
     \E c \in db.chunks :
       /\ c.id = e.chunk_id
       /\ PassFilters(db, c, last.args.protocol_ids, last.args.section_types)}

\* the similarity of a stored embedding to the query of the last request
SimilarityOf(e) ==
  _cosine_similarity(embed_query(last.args.query), unpack(e.embedding))

C20_VectorTopK ==
  (last.runs >= 1 /\ last.args.mode = "vector") =>
    LET res == last.result
        returned == {res[i].chunk_id : i \in 1..Len(res)}
    IN /\ Len(res) = Min(last.args.limit, Cardinality(VectorCandidates))
       /\ Cardinality(returned) = Len(res)
       /\ \A i \in 1..Len(res) :
            \E e \in VectorCandidates :
              e.chunk_id = res[i].chunk_id /\ res[i].score = SimilarityOf(e)
       /\ \A i \in 1..(Len(res) - 1) : ~ CosLess(res[i].score, res[i + 1].score)
       /\ \A e \in VectorCandidates :
            (e.chunk_id \notin returned /\ Len(res) >= 1)
            => ~ CosLess(res[Len(res)].score, SimilarityOf(e))

\* more candidates than the limit, a candidate of lower similarity left out,
\* and the best result is not the candidate of the lowest key
C20_Witness ==
  /\ last.runs >= 1
  /\ last.args.mode = "vector"
  /\ Len(last.result) = last.args.limit
  /\ \E e \in VectorCandidates :
       /\ \A i \in 1..Len(last.result) :
            /\ e.chunk_id # last.result[i].chunk_id
            /\ CosLess(SimilarityOf(e), last.result[i].score)
       /\ e.chunk_id < last.result[1].chunk_id

(***************************************************************************)
(* C21: for a search in any mode, when a non-empty set of protocol ids is  *)
(* given every returned chunk belongs to a document whose protocol id is   *)
(* in the set, and when a non-empty set of section types is given every    *)
(* returned chunk belongs to a section whose type is in the set.           *)
(***************************************************************************)
\* the protocol ids of the stored documents owning the stored chunk of key c
ProtocolsOwning(c) ==
  {r.protocol_id : r \in {x \in db.documents :
                            \E k \in db.chunks : k.id = c /\ k.document_id = x.id}}

\* the types of the stored sections owning the stored chunk of key c
SectionsOwning(c) ==
  {r.section_type : r \in {x \in db.sections :
                             \E k \in db.chunks : k.id = c /\ k.section_id = x.id}}

C21_Filters ==
  last.runs >= 1 =>
    \A i \in 1..Len(last.result) :
      LET c == last.result[i].chunk_id
      IN /\ last.args.protocol_ids # {} =>
              /\ ProtocolsOwning(c) # {}
              /\ ProtocolsOwning(c) \subseteq last.args.protocol_ids
         /\ last.args.section_types # {} =>
              /\ SectionsOwning(c) # {}
              /\ SectionsOwning(c) \subseteq last.args.section_types

\* a hybrid request with both filters that returns a chunk while the same
\* request without filters returns a chunk of another protocol and a chunk
\* of another section type
C21_Witness ==
  /\ last.runs >= 1
  /\ last.args.mode = "hybrid"
  /\ last.args.protocol_ids # {}
  /\ last.args.section_types # {}
  /\ Len(last.result) >= 1
  /\ LET all == search(db, last.args.query, MaxChunkId, {}, {}, "hybrid")
     IN /\ \E i \in 1..Len(all) :
             ProtocolsOwning(all[i].chunk_id) \cap last.args.protocol_ids = {}
        /\ \E i \in 1..Len(all) :
             SectionsOwning(all[i].chunk_id) \cap last.args.section_types = {}

(***************************************************************************)
(* C22: cosine similarity returns exactly 0 whenever either input vector   *)
(* is the zero vector and never raises a division fault, in the Vector     *)
(* Index and in the Semantic Matcher alike.                                *)
(***************************************************************************)
IsZeroVector(v) == \A i \in 1..Len(v) : v[i] = 0

C22_ZeroVector ==
  fn.phase \in {"vector", "comparer"} =>
    /\ fn.out[3] # 0
    /\ (IsZeroVector(fn.args[1]) \/ IsZeroVector(fn.args[2])) => fn.out = <<0, 0, 1>>

\* an implementation has scored a zero vector of two or more components
\* against a non-zero vector of the same length
C22_Witness ==
  /\ fn.phase \in {"vector", "comparer"}
  /\ Len(fn.args[1]) = Len(fn.args[2])
  /\ Len(fn.args[1]) >= 2
  /\ IsZeroVector(fn.args[1])
  /\ ~ IsZeroVector(fn.args[2])
  /\ fn.out = <<0, 0, 1>>

(***************************************************************************)
(* C23: during a vector scan a stored embedding whose dimension differs    *)
(* from the query embedding's is scored as similarity 0 and does not abort *)
(* the scan: the search still scores every other candidate.                *)
(***************************************************************************)
\* the stored embedding e has another dimension than the query embedding of
\* the last request
OtherDimension(e) ==
  Len(unpack(e.embedding)) # Len(embed_query(last.args.query))

\* the similarity of two vectors of one dimension
SameDimensionCosine(a, b) ==
  IF Dot(a, a) = 0 \/ Dot(b, b) = 0 THEN <<0, 0, 1>>
  ELSE <<Sign(Dot(a, b)), Dot(a, b) * Dot(a, b), Dot(a, a) * Dot(b, b)>>

C23_DimensionMismatch ==
  (last.runs >= 1 /\ last.args.mode = "vector") =>
    LET res == last.result
        q == embed_query(last.args.query)
    IN /\ Len(res) = Min(last.args.limit, Cardinality(db.embeddings))
       /\ \A i \in 1..Len(res) :
            \E e \in db.embeddings :
              /\ e.chunk_id = res[i].chunk_id
              /\ res[i].score = IF OtherDimension(e) THEN <<0, 0, 1>>
                                 ELSE SameDimensionCosine(q, unpack(e.embedding))

\* a scan that met a row of another dimension before a row of the query's
\* dimension, scored the first 0 and the second above 0
C23_Witness ==
  /\ last.runs >= 1
  /\ last.args.mode = "vector"
  /\ \E i, j \in 1..Len(last.result) :
       \E e1, e2 \in db.embeddings :
         /\ e1.chunk_id = last.result[i].chunk_id
         /\ e2.chunk_id = last.result[j].chunk_id
         /\ e1.chunk_id < e2.chunk_id
         /\ OtherDimension(e1)
         /\ ~ OtherDimension(e2)
         /\ last.result[i].score = <<0, 0, 1>>
         /\ last.result[j].score[1] = 1

(***************************************************************************)
(* C24: for a lexical query that is empty, blank, or whose every word is   *)
(* discarded (shorter than 2 characters once the syntax characters are     *)
(* stripped) the built query matches nothing and the search returns no     *)
(* row; otherwise the built query is the OR of one prefix term per         *)
(* remaining word.                                                         *)
(***************************************************************************)
\* the words of the query that are kept: two characters or more
RemainingWords(query) ==
  LET words == Split(StripSpecial(query), <<>>)
      Long(w) == Len(w) >= 2
  IN SelectSeq(words, Long)

C24_MatchNothing ==
  fn.phase = "searched" =>
    LET kept == RemainingWords(fn.args)
    IN IF kept = <<>>
       THEN /\ fn.out.rows = {}
            /\ \A i \in 1..Len(IndexTexts) : ~ Fts5Match(fn.out.fts_query, IndexTexts[i])
       ELSE /\ Len(fn.out.fts_query) = Len(kept)
            /\ \A i \in 1..Len(kept) :
                 fn.out.fts_query[i] = Phrase(<<kept[i]>>, TRUE)

(***************************************************************************)
(* C25: in every reachable store state all stored embeddings have the same *)
(* dimension, the configured embedding dimension; an ingest whose          *)
(* embedding function returns a vector of another dimension cannot leave   *)
(* such a vector in the store.                                             *)
(***************************************************************************)
C25_ConstantDimension ==
  \A e \in db.embeddings : Len(unpack(e.embedding)) = embedding_dimension

Replacing(p) ==
  /\ job[p].kind = "ingest"
  /\ job[p].force
  /\ job[p].target # 0

\* contents d hold a document stored under the path the command looked up
HoldsPath(d, path) ==
  \E r \in d.documents : r.filepath = resolve(path)

C28_DeleteThenInsert ==
  [][\A p \in Procs :
       Replacing(p) =>
         /\ (pc[p] = "delete" /\ pc'[p] = "parse")
              => /\ get_document_by_id(db', job[p].target) = 0
                 /\ ~ HoldsRowOf(db', job[p].target, ChunkIdsOf(db, job[p].target))
         /\ pc'[p] \in InTransaction \cup {"done"} => pc[p] # "delete"
         /\ (pc[p] \in InTransaction \cup {"parse"} /\ pc'[p] = "error")
              => ~ HoldsPath(db', job[p].path)]_vars

\* C28 as it holds with a second process at work: the deletion of the
\* existing document is committed before parsing starts and no insert step
\* precedes it; when a later step fails, the old document and its rows are
\* not restored and no row of the new document is visible; a document the
\* store then holds under that path was committed by another command after
\* the deletion.
C28_OldGoneNewInvisible ==
  [][\A p \in Procs :
       Replacing(p) =>
         /\ (pc[p] = "delete" /\ pc'[p] = "parse")
              => /\ get_document_by_id(db', job[p].target) = 0
                 /\ ~ HoldsRowOf(db', job[p].target, ChunkIdsOf(db, job[p].target))
         /\ pc'[p] \in InTransaction \cup {"done"} => pc[p] # "delete"
         /\ (pc[p] \in InTransaction \cup {"parse"} /\ pc'[p] = "error")
              => /\ ~ HoldsRowOf(db', job[p].target, {})
                 /\ pc[p] \in InTransaction =>
                      ~ HoldsRowOf(db', job[p].doc_id,
                                   ChunkIdsOf(txn[p], job[p].doc_id))
                 /\ \A r \in db'.documents :
                      r.filepath = resolve(job[p].path) => r.id > job[p].target]_vars

\* a forced re-ingest failed inside its insert transaction, after it had
\* stored a chunk, and the store holds no document
C28_Witness ==
  \E p \in Procs :
    /\ pc[p] = "error"
    /\ job[p].kind = "ingest"
    /\ job[p].force
    /\ job[p].err = "rolledback"
    /\ job[p].i >= 1
    /\ db.documents = {}

(***************************************************************************)
(* C29: with K = 60 and a hybrid search of limit <= 20, so that every rank *)
(* is at most 60, every chunk of both candidate lists has a strictly       *)
(* greater fused score than every chunk of one list only, and the results  *)
(* labelled hybrid precede the single-source results; for limit >= 21 this *)
(* order is no longer guaranteed: a chunk at the last rank of both lists   *)
(* does not outscore the chunk at rank 1 of one list.                      *)
(***************************************************************************)
C29_HybridFirst ==
  fn.phase = "ranked" =>
    /\ fn.out.source = <<"fts", "hybrid", "vector">>
    /\ fn.args.limit <= 20 =>
         /\ RatLess(fn.out.score[1], fn.out.score[2])
         /\ RatLess(fn.out.score[3], fn.out.score[2])
         /\ fn.out.order[1] = 2
    /\ (/\ fn.args.limit >= 21
        /\ fn.args.fts_ranks[1] = 1
        /\ fn.args.fts_ranks[2] = FetchLimit(fn.args.limit)
        /\ fn.args.vector_ranks[2] = FetchLimit(fn.args.limit))
       => /\ ~ RatLess(fn.out.score[1], fn.out.score[2])
          /\ ~ RatLess(fn.out.score[3], fn.out.score[2])
          /\ fn.out.order[3] = 2

\* limit 20: the chunk at rank 60 of both lists against the chunks at rank 1
\* of one list, 1/60 against 1/61
C29_Witness ==
  /\ fn.phase = "ranked"
  /\ fn.args.limit = 20
  /\ fn.args.fts_ranks[1] = 1
  /\ fn.args.fts_ranks[2] = 60
  /\ fn.args.vector_ranks[2] = 60
  /\ RatEq(fn.out.score[2], Rat(1, 60))
  /\ RatEq(fn.out.score[1], Rat(1, 61))
  /\ fn.out.order = <<2, 1, 3>>

(***************************************************************************)
(* C30: a stored chunk that has no owning section is never returned by a   *)
(* search, in any mode, that is given a non-empty section_types filter,    *)
(* a filter that contains other included.                                  *)
(***************************************************************************)
\* the stored chunks whose section reference is null
Unsectioned == {c \in db.chunks : c.section_id = 0}

\* the chunk ids of an answer
ReturnedIds(res) == {res[i].chunk_id : i \in 1..Len(res)}

C30_UnsectionedFiltered ==
  (last.runs >= 1 /\ last.args.section_types # {}) =>
    \A c \in Unsectioned : c.id \notin ReturnedIds(last.result)

\* a filter that contains other, on a store where the same request without
\* the filter returns a chunk of the no-sections fallback
C30_Witness ==
  /\ last.runs >= 1
  /\ "other" \in last.args.section_types
  /\ \E c \in Unsectioned :
       /\ c.id \in ReturnedIds(search(db, last.args.query, last.args.limit,
                                      last.args.protocol_ids, {}, last.args.mode))
       /\ c.id \notin ReturnedIds(last.result)
====
